---- MODULE Spec2Model ----
(***************************************************************************)
(* A model of QueryParser (src/QueryParser/QueryParser.py): the registries *)
(* built by the constructor, the four memoized result collections behind   *)
(* the reentrant lock, and the resolution routines they are computed by.   *)
(* The parsed tree is a value of the model: the constructor's argument is  *)
(* drawn from a bounded catalogue of statements, each with its tree as the *)
(* AST provider (sqlglot) builds it.                                       *)
(***************************************************************************)
EXTENDS Integers, Sequences, FiniteSets, TLC

VARIABLES
    query,                  \* the constructor's argument: [text, tree]
    phase,                  \* "new", "ready", "ValueError", "AttributeError"
    cte_context,            \* self._cte_context
    cte_definitions,        \* self._cte_definitions
    cte_column_lineage,     \* self._cte_column_lineage
    alias_to_table,         \* self._alias_to_table
    alias_column_lineage,   \* self._alias_column_lineage
    alias_display_names,    \* self._alias_display_names
    source_tables,          \* self._source_tables
    select_context_cache,   \* self._select_context_cache, keyed by id(select)
    memo,                   \* the four memo cells, None until computed
    lock,                   \* self._lock: [owner, count]
    pc,                     \* per thread: where it is inside a public call
    op,                     \* per thread: the public operation it is in
    calls,                  \* per thread: calls started so far
    runs,                   \* per collection: times its extraction routine ran
    builds,                 \* the SELECT ids _build_select_context ran on, in order
    returned,               \* per operation: the distinct values returned so far
    applied                 \* a routine run on its own: [routine, args, value]

vars == <<query, phase, cte_context, cte_definitions, cte_column_lineage,
          alias_to_table, alias_column_lineage, alias_display_names,
          source_tables, select_context_cache, memo, lock, pc, op, calls,
          runs, builds, returned, applied>>

(***************************************************************************)
(* Python values: str.lower / str.upper / sorted over the identifiers the  *)
(* catalogue uses, and insertion-ordered dicts as sequences of [k, v].     *)
(***************************************************************************)
None == [kind |-> "None"]

\* str.lower() and str.upper(): the identifiers that have letters, as written,
\* and at the same index their lower and upper case; a string without letters
\* ("*", "1") is its own lower and upper case
Written ==
    << "T", "t", "T1", "t1", "T2", "t2", "a", "A", "b", "B", "c", "C", "s", "S",
       "n", "N", "x", "X", "y", "Y", "id", "ID", "one", "ONE",
       "c1", "c2", "c3", "c4", "c5", "c6", "C1", "C2", "C3", "C4", "C5", "C6",
       "u", "U", "v", "V", "w", "W", "p", "P", "Cx", "cX", "cx", "CX" >>
Lowered ==
    << "t", "t", "t1", "t1", "t2", "t2", "a", "a", "b", "b", "c", "c", "s", "s",
       "n", "n", "x", "x", "y", "y", "id", "id", "one", "one",
       "c1", "c2", "c3", "c4", "c5", "c6", "c1", "c2", "c3", "c4", "c5", "c6",
       "u", "u", "v", "v", "w", "w", "p", "p", "cx", "cx", "cx", "cx" >>
Uppered ==
    << "T", "T", "T1", "T1", "T2", "T2", "A", "A", "B", "B", "C", "C", "S", "S",
       "N", "N", "X", "X", "Y", "Y", "ID", "ID", "ONE", "ONE",
       "C1", "C2", "C3", "C4", "C5", "C6", "C1", "C2", "C3", "C4", "C5", "C6",
       "U", "U", "V", "V", "W", "W", "P", "P", "CX", "CX", "CX", "CX" >>

CaseOf(s, forms) ==
    IF \E i \in DOMAIN Written : Written[i] = s
    THEN forms[CHOOSE i \in DOMAIN Written : Written[i] = s] ELSE s
Lower(s) == CaseOf(s, Lowered)
Upper(s) == CaseOf(s, Uppered)

\* the table identifiers of the catalogue in Python's string order
StrOrder == << "A", "B", "C1", "S", "S.T", "T", "T1", "T2", "X",
               "a", "b", "c", "c1", "c2", "c3", "c4", "c5", "c6",
               "n", "s", "t", "t1", "t2", "u", "v", "w", "x", "y" >>
Rank(s) == IF \E i \in 1..Len(StrOrder) : StrOrder[i] = s
           THEN CHOOSE i \in 1..Len(StrOrder) : StrOrder[i] = s
           ELSE Len(StrOrder) + 1

Range(s) == { s[i] : i \in 1..Len(s) }
InSeq(x, s) == \E i \in 1..Len(s) : s[i] = x

RECURSIVE Concat(_)
Concat(ss) == IF ss = <<>> THEN <<>> ELSE Head(ss) \o Concat(Tail(ss))

RECURSIVE SortedSet(_)
\* sorted(set(xs))
SortedSet(S) ==
    IF S = {} THEN <<>>
    ELSE LET m == CHOOSE x \in S : \A y \in S : Rank(x) <= Rank(y)
         IN  <<m>> \o SortedSet(S \ {m})
sorted_set(xs) == SortedSet(Range(xs))

DictHas(d, k) == \E i \in 1..Len(d) : d[i].k = k
DictGet(d, k, default) ==
    IF DictHas(d, k) THEN d[CHOOSE i \in 1..Len(d) : d[i].k = k].v ELSE default
DictPut(d, k, v) ==
    IF DictHas(d, k)
    THEN [i \in 1..Len(d) |-> IF d[i].k = k THEN [k |-> k, v |-> v] ELSE d[i]]
    ELSE Append(d, [k |-> k, v |-> v])
DictValues(d) == [i \in 1..Len(d) |-> d[i].v]
DictKeys(d) == [i \in 1..Len(d) |-> d[i].k]
\* dict.setdefault(k, v)
DictSetDefault(d, k, v) == IF DictHas(d, k) THEN d ELSE Append(d, [k |-> k, v |-> v])

(***************************************************************************)
(* The tree of the AST provider.  Every node is a record with a kind; an   *)
(* absent argument is None, an absent alias or qualifier the empty string. *)
(***************************************************************************)
Col(q, n) == [kind |-> "Column", table |-> q, name |-> n]
Star == [kind |-> "Star", name |-> "*"]
Lit(v) == [kind |-> "Literal", this |-> v]
Bin(k, l, r) == [kind |-> k, this |-> l, expression |-> r]
Paren(e) == [kind |-> "Paren", this |-> e]
Fn(k, e) == [kind |-> k, this |-> e]
AliasE(e, a) == [kind |-> "Alias", this |-> e, alias |-> a]
Tbl(catalog, db, name, alias) ==
    [kind |-> "Table", catalog |-> catalog, db |-> db, name |-> name, alias |-> alias]
Subq(q, alias) == [kind |-> "Subquery", this |-> q, alias |-> alias]
From(rel) == [kind |-> "From", this |-> rel]
Where(c) == [kind |-> "Where", this |-> c]
Having(c) == [kind |-> "Having", this |-> c]
JoinOn(rel, side, jk, on) ==
    [kind |-> "Join", this |-> rel, side |-> side, jkind |-> jk, on |-> on, using |-> <<>>]
JoinUsing(rel, side, jk, using) ==
    [kind |-> "Join", this |-> rel, side |-> side, jkind |-> jk, on |-> None, using |-> using]
CTE(alias, q) == [kind |-> "CTE", alias |-> alias, this |-> q]
With(ctes) == IF ctes = <<>> THEN None ELSE [kind |-> "With", expressions |-> ctes]
Select(id, ctes, exprs, from, joins, where, having) ==
    [kind |-> "Select", id |-> id, expressions |-> exprs,
     from |-> IF from = None THEN None ELSE From(from),
     joins |-> joins,
     where |-> IF where = None THEN None ELSE Where(where),
     having |-> IF having = None THEN None ELSE Having(having),
     with |-> With(ctes)]
Union(ctes, l, r) ==
    [kind |-> "Union", this |-> l, expression |-> r, with |-> With(ctes)]

BinaryKinds == {"And", "Or", "EQ", "NEQ", "LT", "LTE", "GT", "GTE", "Add", "Mul", "Like", "Is"}
UnaryKinds == {"Paren", "Sum", "Count", "Upper", "Not", "From", "Where", "Having", "Alias", "Exists"}

Opt(n) == IF n = None THEN <<>> ELSE <<n>>

\* Expression.iter_expressions: the child nodes in the order the parser set them
Children(n) ==
    CASE n.kind = "Select" ->
            n.expressions \o Opt(n.from) \o n.joins \o Opt(n.where)
            \o Opt(n.having) \o Opt(n.with)
      [] n.kind = "Union" -> <<n.this, n.expression>> \o Opt(n.with)
      [] n.kind = "With" -> n.expressions
      [] n.kind \in {"CTE", "Subquery"} -> <<n.this>>
      [] n.kind = "Join" -> <<n.this>> \o Opt(n.on)
      [] n.kind \in BinaryKinds -> <<n.this, n.expression>>
      [] n.kind \in UnaryKinds -> <<n.this>>
      [] n.kind = "In" -> <<n.this>> \o n.expressions
      [] n.kind = "Between" -> <<n.this, n.low, n.high>>
      [] OTHER -> <<>>

RECURSIVE Bfs(_)
\* Expression.bfs over a queue of [node, sel]; sel is id of the nearest
\* enclosing Select (0 when there is none), as find_ancestor(exp.Select) gives
Bfs(queue) ==
    IF queue = <<>> THEN <<>>
    ELSE LET h == Head(queue)
             inner == IF h.node.kind = "Select" THEN h.node.id ELSE h.sel
             under(kids) == [i \in 1..Len(kids) |-> [node |-> kids[i], sel |-> inner]]
         IN  <<h>> \o Bfs(Tail(queue) \o under(Children(h.node)))

Walk(n) == Bfs(<<[node |-> n, sel |-> 0]>>)

\* expression.find_all(kind): breadth first, the node itself included
find_all_in(n, kinds) == SelectSeq(Walk(n), LAMBDA e : e.node.kind \in kinds)
find_all(n, kind) ==
    LET found == find_all_in(n, {kind}) IN [i \in 1..Len(found) |-> found[i].node]

SelectById(root, id) ==
    LET found == SelectSeq(Walk(root),
                    LAMBDA e : e.node.kind = "Select" /\ e.node.id = id)
    IN  IF found = <<>> THEN None ELSE found[1].node

(***************************************************************************)
(* Resolution routines.  self is the record of the instance fields a       *)
(* routine reads: alias_to_table, alias_column_lineage, source_tables.     *)
(***************************************************************************)
RECURSIVE FoldSeq(_, _, _)
\* a Python for loop: acc = f(acc, x) for x in s
FoldSeq(f(_, _), acc, s) ==
    IF s = <<>> THEN acc
    ELSE LET next == f(acc, Head(s))
         IN  IF Len(<<next>>) = 1 THEN FoldSeq(f, next, Tail(s)) ELSE next

\* _merge_sources without the copy (merged = left): the list passed as left is
\* the list that grows, and it is the list returned
_merge_sources_in_place(left, right) ==
    LET merged == FoldSeq(LAMBDA acc, source :
                              IF InSeq(source, acc) THEN acc ELSE Append(acc, source),
                          left, right)
    IN  [result |-> merged, left |-> merged, result_is_left |-> TRUE]

\* what _merge_sources returns, what it leaves in the list passed as left, and
\* whether the list returned is that very list (merged = list(left) copies, so
\* left is untouched and the result is a new list)
_merge_sources_effect(left, right) ==
    [result |-> FoldSeq(LAMBDA merged, source :
                            IF InSeq(source, merged) THEN merged
                            ELSE Append(merged, source),
                        left, right),
     left |-> left,
     result_is_left |-> FALSE]

_merge_sources(left, right) == _merge_sources_effect(left, right).result

_normalize_table_name(table) ==
    LET parts == SelectSeq(<<table.catalog, table.db, table.name>>,
                           LAMBDA part : part # "")
    IN  IF parts = <<>> THEN table.name
        ELSE FoldSeq(LAMBDA acc, part : acc \o "." \o part, Head(parts), Tail(parts))

_sources_for_table_reference(table, ctes) ==
    LET sources == DictGet(ctes, Lower(table.name), <<>>)
        normalized == _normalize_table_name(table)
    IN  IF sources # <<>> THEN sources
        ELSE IF normalized # "" THEN <<normalized>> ELSE <<>>

CtxRelations(ctx) == IF ctx = None THEN <<>> ELSE ctx.relations
CtxDefaultTables(self, ctx) ==
    IF ctx = None THEN self.source_tables ELSE ctx.default_tables
CtxProjectionLineage(ctx) == IF ctx = None THEN <<>> ELSE ctx.projection_lineage

_relations_for_qualifier(ctx, qualifier) ==
    IF qualifier = "" THEN CtxRelations(ctx)
    ELSE SelectSeq(CtxRelations(ctx),
                   LAMBDA relation : Lower(relation.alias) = Lower(qualifier))

Entry(name, tables, lineage) == [name |-> name, tables |-> tables, lineage |-> lineage]

RECURSIVE _normalize_lineage_entries(_)
_normalize_lineage_entries(entries) ==
    FoldSeq(LAMBDA normalized, entry :
                LET nested == _normalize_lineage_entries(entry.lineage)
                IN  IF entry.name = "" THEN normalized \o nested
                    ELSE Append(normalized, Entry(entry.name, entry.tables, nested)),
            <<>>, entries)

\* variant: entries without tables are returned with the others
RECURSIVE _lineage_leaf_entries_untested(_)
_lineage_leaf_entries_untested(entries) ==
    FoldSeq(LAMBDA leaves, entry :
                IF entry.lineage # <<>>
                THEN leaves \o _lineage_leaf_entries_untested(entry.lineage)
                ELSE IF entry.name = "" THEN leaves
                ELSE Append(leaves, Entry(entry.name, entry.tables, <<>>)),
            <<>>, _normalize_lineage_entries(entries))

RECURSIVE _lineage_leaf_entries(_)
_lineage_leaf_entries(entries) ==
    FoldSeq(LAMBDA leaves, entry :
                IF entry.lineage # <<>>
                THEN leaves \o _lineage_leaf_entries(entry.lineage)
                ELSE IF entry.name = "" \/ entry.tables = <<>> THEN leaves
                ELSE Append(leaves, Entry(entry.name, entry.tables, <<>>)),
            <<>>, _normalize_lineage_entries(entries))

\* the pseudo table list a resolution yields when it reads self._alias_to_table
\* before __init__ has assigned it (the AttributeError is raised by Construct)
Unassigned == <<"<AttributeError>">>

_resolve_qualified(self, qualifier, ctx, column_key) ==
    LET matching == _relations_for_qualifier(ctx, qualifier)
        variants == <<qualifier, Lower(qualifier), Upper(qualifier)>>
        hits == SelectSeq(variants,
                    LAMBDA alias : DictGet(self.alias_to_table, alias, <<>>) # <<>>)
    IN  IF matching # <<>>
        THEN LET relation == matching[1] IN
             IF column_key # "" /\ DictHas(relation.columns, column_key)
             THEN DictGet(relation.columns, column_key, None).tables
             ELSE relation.tables
        ELSE IF ~self.assigned THEN Unassigned
        ELSE IF hits # <<>>
        THEN LET alias == hits[1]
                 lineage == DictGet(self.alias_column_lineage, Lower(alias), <<>>)
             IN  IF column_key # "" /\ DictHas(lineage, column_key)
                 THEN DictGet(lineage, column_key, None).tables
                 ELSE DictGet(self.alias_to_table, alias, <<>>)
        ELSE <<qualifier>>

\* variant: only the first relation that declares the column is read
_resolve_unqualified_first(self, ctx, column_key) ==
    LET declaring == IF column_key = "" THEN <<>>
                     ELSE SelectSeq(CtxRelations(ctx),
                              LAMBDA relation : DictHas(relation.columns, column_key))
    IN  IF declaring # <<>>
        THEN _merge_sources(<<>>, DictGet(declaring[1].columns, column_key, None).tables)
        ELSE CtxDefaultTables(self, ctx)

_resolve_unqualified(self, ctx, column_key) ==
    LET declaring == IF column_key = "" THEN <<>>
                     ELSE SelectSeq(CtxRelations(ctx),
                              LAMBDA relation : DictHas(relation.columns, column_key))
        matches == Concat([i \in 1..Len(declaring) |->
                              DictGet(declaring[i].columns, column_key, None).tables])
    IN  IF matches # <<>> THEN _merge_sources(<<>>, matches)
        ELSE CtxDefaultTables(self, ctx)

_resolve_column_sources(self, qualifier, ctx, column_name) ==
    IF qualifier # "" THEN _resolve_qualified(self, qualifier, ctx, Lower(column_name))
    ELSE _resolve_unqualified(self, ctx, Lower(column_name))

\* extend_from_entry for each entry in turn: the normalized lineage components
\* with a name, first occurrence of each (lower name, tables)
LineageMatches(entries) ==
    FoldSeq(LAMBDA matches, component :
                IF component.name = ""
                   \/ \E i \in 1..Len(matches) :
                        /\ Lower(matches[i].name) = Lower(component.name)
                        /\ matches[i].tables = component.tables
                THEN matches ELSE Append(matches, component),
            <<>>,
            Concat([i \in 1..Len(entries) |->
                       _normalize_lineage_entries(entries[i].lineage)]))

DeclaredEntries(relations, column_key) ==
    LET declaring == SelectSeq(relations,
                        LAMBDA relation : DictHas(relation.columns, column_key))
    IN  [i \in 1..Len(declaring) |-> DictGet(declaring[i].columns, column_key, None)]

_column_lineage_for_reference(self, qualifier, ctx, column_name) ==
    LET column_key == Lower(column_name)
        alias_lineage == DictGet(self.alias_column_lineage, Lower(qualifier), <<>>)
        projection_lineage == CtxProjectionLineage(ctx)
    IN  IF column_name = "" THEN <<>>
        ELSE IF qualifier # ""
        THEN LineageMatches(
                DeclaredEntries(_relations_for_qualifier(ctx, qualifier), column_key)
                \o (IF DictHas(alias_lineage, column_key)
                    THEN <<DictGet(alias_lineage, column_key, None)>> ELSE <<>>))
        ELSE LineageMatches(
                DeclaredEntries(CtxRelations(ctx), column_key)
                \o (IF DictHas(projection_lineage, column_key)
                    THEN <<DictGet(projection_lineage, column_key, None)>> ELSE <<>>))

_output_column_name(projection) ==
    CASE projection.kind = "Alias" -> projection.alias
      [] projection.kind \in {"Column", "Star"} -> projection.name
      [] projection.kind = "Literal" -> projection.this
      [] projection.kind \in {"Sum", "Count", "Upper"} ->
            IF projection.this.kind = "Star" THEN "*" ELSE ""
      [] OTHER -> ""

_tables_for_projection(self, projection, ctx) ==
    LET columns == find_all(projection, "Column")
        sources == FoldSeq(LAMBDA acc, column :
                        _merge_sources(acc,
                            _resolve_column_sources(self, column.table, ctx, column.name)),
                        <<>>, columns)
        relations == CtxRelations(ctx)
        matches == Concat([i \in 1..Len(columns) |->
                      IF DictHas(relations[1].columns, Lower(columns[i].name))
                      THEN DictGet(relations[1].columns, Lower(columns[i].name), None).tables
                      ELSE <<>>])
    IN  IF sources # <<>> THEN sources
        ELSE IF Len(relations) = 1 /\ columns # <<>> /\ matches # <<>>
        THEN _merge_sources(<<>>, matches)
        ELSE IF ctx = None THEN <<>> ELSE ctx.default_tables

_projection_lineage(self, projection, ctx) ==
    FoldSeq(LAMBDA dependencies, column :
                LET tables == _resolve_column_sources(self, column.table, ctx, column.name)
                    nested == _column_lineage_for_reference(
                                  self, column.table, ctx, column.name)
                IN  IF column.name = ""
                       \/ \E i \in 1..Len(dependencies) :
                            /\ Lower(dependencies[i].name) = Lower(column.name)
                            /\ dependencies[i].tables = tables
                    THEN dependencies
                    ELSE Append(dependencies, Entry(column.name, tables, nested)),
            <<>>, find_all(projection, "Column"))

Column(col_name, potential_tables) ==
    [col_name |-> col_name, potential_tables |-> potential_tables, lineage |-> <<>>]

\* _expand_star_column without the expansion to leaves: every declared column
\* under its projected name
_expand_star_column_declared(column, ctx) ==
    LET targets == _relations_for_qualifier(ctx, column.table)
        entries == Concat([i \in 1..Len(targets) |-> DictValues(targets[i].columns)])
    IN  Concat([i \in 1..Len(entries) |->
                   IF entries[i].name = "" \/ entries[i].tables = <<>> THEN <<>>
                   ELSE <<Column(entries[i].name, entries[i].tables)>>])

\* the Columns one declared entry of a relation expands to
ExpandEntry(entry) ==
    LET lineage_leaves == _lineage_leaf_entries(entry.lineage)
    IN  IF entry.name = "" THEN <<>>
        ELSE IF lineage_leaves # <<>>
        THEN [i \in 1..Len(lineage_leaves) |->
                 Column(lineage_leaves[i].name, lineage_leaves[i].tables)]
        ELSE IF entry.tables = <<>> THEN <<>>
        ELSE <<Column(entry.name, entry.tables)>>

_expand_star_column(column, ctx) ==
    LET targets == _relations_for_qualifier(ctx, column.table)
        entries == Concat([i \in 1..Len(targets) |-> DictValues(targets[i].columns)])
    IN  Concat([i \in 1..Len(entries) |-> ExpandEntry(entries[i])])

(***************************************************************************)
(* Select contexts and the CTE registry (mutually recursive in the code).  *)
(***************************************************************************)
RECURSIVE _collect_cte_sources(_, _, _, _)
RECURSIVE _tables_for_subexpression(_, _, _)
RECURSIVE _columns_for_subexpression(_, _, _, _)
RECURSIVE _build_select_context(_, _, _, _)
RECURSIVE _relation_descriptor(_, _, _, _)

Relation(alias, tables, columns) ==
    [alias |-> alias, tables |-> tables, columns |-> columns]

_relation_descriptor(self, relation, table_context, column_context) ==
    CASE relation.kind = "Table" ->
            LET alias == IF relation.alias # "" THEN relation.alias ELSE relation.name
                by_alias == IF relation.alias # "" /\ alias # ""
                            THEN DictGet(column_context, Lower(alias), <<>>)
                            ELSE <<>>
                has_qualifier == relation.db # "" \/ relation.catalog # ""
                column_lineage ==
                    IF relation.name # "" /\ ~has_qualifier
                    THEN DictGet(column_context, Lower(relation.name), by_alias)
                    ELSE by_alias
            IN  Relation(alias,
                         _sources_for_table_reference(relation, table_context),
                         column_lineage)
      [] relation.kind = "Subquery" ->
            Relation(relation.alias,
                     _tables_for_subexpression(self, relation.this, table_context),
                     _columns_for_subexpression(self, relation.this, table_context,
                                                column_context))
      [] relation.kind = "Identifier" ->
            Relation(relation.this,
                     DictGet(table_context, Lower(relation.this), <<>>),
                     DictGet(column_context, Lower(relation.this), <<>>))
      [] OTHER -> None

\* the FROM target and the JOIN targets of a SELECT, in order
RelationNodes(select) ==
    (IF select.from = None THEN <<>> ELSE <<select.from.this>>)
    \o [i \in 1..Len(select.joins) |-> select.joins[i].this]

_build_select_context(self, select, table_context, column_context) ==
    LET nodes == RelationNodes(select)
        \* projection_lineage[output_name.lower()] = {"lineage": dependencies}
        record(acc, output_name, dependencies) ==
            IF output_name = "" \/ dependencies = <<>> THEN acc
            ELSE DictPut(acc, Lower(output_name), Entry("", <<>>, dependencies))
        \* the loop over select.expressions, under projection_context
        projections(projection_context) ==
            [relations |-> projection_context.relations,
             default_tables |-> projection_context.default_tables,
             projection_lineage |->
                FoldSeq(LAMBDA acc, projection :
                            record(acc, _output_column_name(projection),
                                   _projection_lineage(self, projection,
                                                       projection_context)),
                        <<>>, select.expressions)]
        \* the descriptors that are not None, and their tables merged in order
        described(relations) ==
            projections([relations |-> relations,
                         default_tables |->
                            FoldSeq(LAMBDA acc, d : _merge_sources(acc, d.tables),
                                    <<>>, relations),
                         projection_lineage |-> <<>>])
    IN  described(SelectSeq([i \in 1..Len(nodes) |->
                                _relation_descriptor(self, nodes[i], table_context,
                                                     column_context)],
                            LAMBDA d : d # None))

_columns_for_subexpression(self, expression, table_context, column_context) ==
    LET target == IF expression.kind = "Subquery" THEN expression.this ELSE expression
        \* if tables: lineage[output_name.lower()] = entry
        declare(lineage, output_name, tables, dependencies) ==
            IF tables = <<>> THEN lineage
            ELSE DictPut(lineage, Lower(output_name),
                         Entry(output_name, sorted_set(tables), dependencies))
        \* the loop over target.expressions, under the context built for target
        project(context) ==
            FoldSeq(LAMBDA lineage, projection :
                IF _output_column_name(projection) = "" THEN lineage
                ELSE IF _output_column_name(projection) = "*" /\ projection.kind = "Column"
                THEN FoldSeq(LAMBDA acc, column :
                                DictPut(acc, Lower(column.col_name),
                                    Entry(column.col_name, column.potential_tables, <<>>)),
                             lineage, _expand_star_column(projection, context))
                ELSE declare(lineage, _output_column_name(projection),
                             _tables_for_projection(self, projection, context),
                             _projection_lineage(self, projection, context)),
                <<>>, target.expressions)
    IN  IF target.kind # "Select" THEN <<>>
        ELSE project(_build_select_context(self, target, table_context, column_context))

_tables_for_subexpression(self, expression, outer_context) ==
    LET context == _collect_cte_sources(self, expression, outer_context, <<>>).context
        tables == find_all(expression, "Table")
    IN  FoldSeq(LAMBDA acc, table :
                    _merge_sources(acc,
                        SelectSeq(_sources_for_table_reference(table, context),
                                  LAMBDA source : source # "")),
                <<>>, tables)

\* _collect_cte_sources that resolves every CTE body against the outer context
\* alone: a CTE does not see the CTEs declared before it
_collect_cte_sources_unthreaded(self, expression, outer_context, outer_columns) ==
    LET start == [context |-> outer_context, definitions |-> <<>>,
                  column_definitions |-> outer_columns]
        has_with == expression.kind \in {"Select", "Union"} /\ expression.with # None
        define(acc, alias, cte_sources, cte_columns) ==
            [context |-> DictPut(acc.context, Lower(alias), cte_sources),
             definitions |-> DictPut(acc.definitions, alias, cte_sources),
             column_definitions |->
                 DictPut(acc.column_definitions, Lower(alias), cte_columns)]
    IN  IF ~has_with THEN start
        ELSE FoldSeq(LAMBDA acc, cte :
                IF cte.alias = "" THEN acc
                ELSE define(acc, cte.alias,
                            _tables_for_subexpression(self, cte.this, outer_context),
                            _columns_for_subexpression(self, cte.this, outer_context,
                                                       outer_columns)),
                start, expression.with.expressions)

_collect_cte_sources(self, expression, outer_context, outer_columns) ==
    LET start == [context |-> outer_context, definitions |-> <<>>,
                  column_definitions |-> outer_columns]
        has_with == expression.kind \in {"Select", "Union"} /\ expression.with # None
        \* the three assignments that close the loop body
        define(acc, alias, cte_sources, cte_columns) ==
            [context |-> DictPut(acc.context, Lower(alias), cte_sources),
             definitions |-> DictPut(acc.definitions, alias, cte_sources),
             column_definitions |->
                 DictPut(acc.column_definitions, Lower(alias), cte_columns)]
    IN  IF ~has_with THEN start
        ELSE FoldSeq(LAMBDA acc, cte :
                IF cte.alias = "" THEN acc
                ELSE define(acc, cte.alias,
                            _tables_for_subexpression(self, cte.this, acc.context),
                            _columns_for_subexpression(self, cte.this, acc.context,
                                                       acc.column_definitions)),
                start, expression.with.expressions)

(***************************************************************************)
(* The alias registry.                                                     *)
(***************************************************************************)
\* reg is [alias_map, display, lineage]: the dict being filled and the two
\* instance dicts _bind_alias writes
_bind_alias(reg, key, value, column_lineage) ==
    LET normalized_lineage ==
            FoldSeq(LAMBDA acc, item :
                        DictPut(acc, Lower(item.k),
                            Entry(IF item.v.name # "" THEN item.v.name ELSE item.k,
                                  item.v.tables,
                                  _normalize_lineage_entries(item.v.lineage))),
                    <<>>, column_lineage)
    IN  IF key = "" THEN reg
        ELSE FoldSeq(LAMBDA acc, variant :
                [alias_map |-> DictPut(acc.alias_map, variant, value),
                 display |-> DictSetDefault(acc.display, Lower(variant), variant),
                 lineage |-> IF normalized_lineage # <<>>
                             THEN DictPut(acc.lineage, Lower(variant), normalized_lineage)
                             ELSE acc.lineage],
                reg, <<key, Lower(key), Upper(key)>>)

\* register_sources without the seen set
register_sources_unseen(tables, sources) ==
    tables \o SelectSeq(sources, LAMBDA source : source # "")

\* register_sources: append each new non-empty source once
register_sources(tables, sources) ==
    FoldSeq(LAMBDA acc, source :
                IF source # "" /\ ~InSeq(source, acc) THEN Append(acc, source) ELSE acc,
            tables, sources)

\* the instance as the resolution routines see it while __init__ is running:
\* _alias_to_table is not assigned yet, _source_tables is still []
DuringInit(lineage) ==
    [alias_to_table |-> <<>>, assigned |-> FALSE,
     alias_column_lineage |-> lineage, source_tables |-> <<>>]

_collect_tables(root, ctes) ==
    LET start == [alias_map |-> <<>>, display |-> <<>>, lineage |-> <<>>, tables |-> <<>>]
        bind(acc, key, value, columns) ==
            _bind_alias([alias_map |-> acc.alias_map, display |-> acc.display,
                         lineage |-> acc.lineage], key, value, columns)
            @@ [tables |-> acc.tables]
        after_ctes ==
            FoldSeq(LAMBDA acc, item :
                        bind([acc EXCEPT !.tables = register_sources(acc.tables, item.v)],
                             item.k, item.v,
                             DictGet(ctes.column_definitions, Lower(item.k), <<>>)),
                    start, ctes.definitions)
        after_tables ==
            FoldSeq(LAMBDA acc, table :
                        LET sources == _sources_for_table_reference(table, ctes.context)
                            named == bind([acc EXCEPT !.tables =
                                               register_sources(acc.tables, sources)],
                                          table.name, sources, <<>>)
                        IN  IF sources = <<>> THEN acc
                            ELSE IF table.alias # ""
                            THEN bind(named, table.alias, sources, <<>>)
                            ELSE named,
                    after_ctes, find_all(root, "Table"))
        registered(acc, key, sources, columns) ==
            bind([acc EXCEPT !.tables = register_sources(acc.tables, sources)],
                 key, sources, columns)
    IN  FoldSeq(LAMBDA acc, subquery :
                    IF subquery.alias = "" THEN acc
                    ELSE registered(acc, subquery.alias,
                            _tables_for_subexpression(DuringInit(acc.lineage),
                                                      subquery.this, ctes.context),
                            _columns_for_subexpression(DuringInit(acc.lineage),
                                                       subquery.this, ctes.context,
                                                       ctes.column_definitions)),
                after_tables, find_all(root, "Subquery"))

(***************************************************************************)
(* The four extraction routines.  self is the constructed instance, cache  *)
(* the select-context cache with every SELECT the routine visits in it.    *)
(***************************************************************************)
ColumnKey(column) == <<Lower(column.col_name), column.potential_tables>>
HasKey(columns, key) == \E i \in 1..Len(columns) : ColumnKey(columns[i]) = key

\* append the columns whose (lower name, tables) is not in the list yet
AppendUnique(result, columns) ==
    FoldSeq(LAMBDA acc, column :
                IF HasKey(acc, ColumnKey(column)) THEN acc ELSE Append(acc, column),
            result, columns)

\* the names of a list of columns, lowercased, first occurrence of each
GroupNames(columns) ==
    FoldSeq(LAMBDA acc, column :
                IF InSeq(Lower(column.col_name), acc) THEN acc
                ELSE Append(acc, Lower(column.col_name)),
            <<>>, columns)

\* one group, with the test for redundancy made on the tables as they came in
\* and the narrowing after it
FilterGroup_test_first(entries) ==
    LET unambiguous_tables ==
            { entries[i].potential_tables[1] :
                i \in { j \in 1..Len(entries) : Len(entries[j].potential_tables) = 1 } }
        narrow(column) ==
            LET intersection == SelectSeq(column.potential_tables,
                                    LAMBDA table : table \in unambiguous_tables)
            IN  IF intersection # <<>>
                THEN [column EXCEPT !.potential_tables = sorted_set(intersection)]
                ELSE column
    IN  FoldSeq(LAMBDA filtered, column :
                    IF Len(column.potential_tables) <= 1 THEN Append(filtered, column)
                    ELSE IF Range(column.potential_tables) \subseteq unambiguous_tables
                         THEN filtered
                         ELSE Append(filtered, narrow(column)),
                <<>>, entries)

\* variant: an ambiguous column is narrowed but never dropped
FilterGroup_narrow_only(entries) ==
    LET unambiguous_tables ==
            { entries[i].potential_tables[1] :
                i \in { j \in 1..Len(entries) : Len(entries[j].potential_tables) = 1 } }
        intersection(column) == SelectSeq(column.potential_tables,
                                    LAMBDA table : table \in unambiguous_tables)
    IN  [i \in 1..Len(entries) |->
            IF Len(entries[i].potential_tables) <= 1 \/ intersection(entries[i]) = <<>>
            THEN entries[i]
            ELSE [entries[i] EXCEPT !.potential_tables = sorted_set(intersection(entries[i]))]]

\* one group of _filter_redundant_ambiguity: the entries it keeps
FilterGroup(entries) ==
    LET unambiguous_tables ==
            { entries[i].potential_tables[1] :
                i \in { j \in 1..Len(entries) : Len(entries[j].potential_tables) = 1 } }
        narrow(column) ==
            LET intersection == SelectSeq(column.potential_tables,
                                    LAMBDA table : table \in unambiguous_tables)
            IN  IF intersection # <<>>
                THEN [column EXCEPT !.potential_tables = sorted_set(intersection)]
                ELSE column
    IN  FoldSeq(LAMBDA filtered, column :
                    IF Len(column.potential_tables) <= 1 THEN Append(filtered, column)
                    ELSE LET narrowed == narrow(column) IN
                         IF /\ Len(narrowed.potential_tables) > 1
                            /\ Range(narrowed.potential_tables) \subseteq unambiguous_tables
                         THEN filtered
                         ELSE Append(filtered, narrowed),
                <<>>, entries)

_filter_redundant_ambiguity(columns) ==
    LET names == GroupNames(columns)
        filtered == Concat([i \in 1..Len(names) |->
                        FilterGroup(SelectSeq(columns,
                            LAMBDA column : Lower(column.col_name) = names[i]))])
    IN  AppendUnique(<<>>, filtered)

\* the Columns of the leaves of lineage entries that have a name and tables
LeafColumns(entries) ==
    LET leaves == _lineage_leaf_entries(entries)
    IN  [i \in 1..Len(leaves) |-> Column(leaves[i].name, leaves[i].tables)]

\* what one exp.Column node adds to the result of _extract_source_columns
SourceColumnsOf(self, ctx, column) ==
    LET lineage_entries == _column_lineage_for_reference(
                               self, column.table, ctx, column.name)
    IN  IF column.name = "" THEN <<>>
        ELSE IF column.name = "*" THEN _expand_star_column(column, ctx)
        ELSE IF lineage_entries # <<>> THEN LeafColumns(lineage_entries)
        ELSE <<Column(column.name,
                      _resolve_column_sources(self, column.table, ctx, column.name))>>

ContextOf(cache, sel) == DictGet(cache, sel, None)

_extract_source_columns(self, cache, root) ==
    LET columns == find_all_in(root, {"Column"})
        result == FoldSeq(LAMBDA acc, c :
                              AppendUnique(acc,
                                  SourceColumnsOf(self, ContextOf(cache, c.sel), c.node)),
                          <<>>, columns)
    IN  _filter_redundant_ambiguity(result)

RECURSIVE _final_selects(_)
_final_selects(expression) ==
    CASE expression = None -> <<>>
      [] expression.kind \in {"With", "Subquery", "Paren"} -> _final_selects(expression.this)
      [] expression.kind = "Union" ->
            _final_selects(expression.this) \o _final_selects(expression.expression)
      [] expression.kind = "Select" -> <<expression>>
      [] OTHER -> <<>>

\* (Column, direct) pairs as [column, direct]
_lineage_columns(entries, allow_direct) ==
    LET columns == LeafColumns(entries)
    IN  [i \in 1..Len(columns) |->
            [column |-> columns[i], direct |-> allow_direct /\ Len(columns) = 1]]

_column_from_expression(self, expression, ctx) ==
    IF expression = None \/ expression.kind # "Column" \/ expression.name = "" THEN None
    ELSE Column(expression.name,
                _resolve_column_sources(self, expression.table, ctx, expression.name))

_star_projection(column, ctx) ==
    LET targets == _relations_for_qualifier(ctx, column.table)
        entries == Concat([i \in 1..Len(targets) |-> DictValues(targets[i].columns)])
    IN  Concat([i \in 1..Len(entries) |-> _lineage_columns(<<entries[i]>>, TRUE)])

_column_projection(self, column, ctx) ==
    LET lineage_entries == _column_lineage_for_reference(
                               self, column.table, ctx, column.name)
        column_obj == _column_from_expression(self, column, ctx)
    IN  IF column.name = "*" THEN _star_projection(column, ctx)
        ELSE IF lineage_entries # <<>> THEN _lineage_columns(lineage_entries, TRUE)
        ELSE IF column_obj = None THEN <<>>
        ELSE <<[column |-> column_obj, direct |-> TRUE]>>

_projection_columns(self, projection, ctx) ==
    LET target == IF projection.kind = "Alias" THEN projection.this ELSE projection
    IN  IF target.kind = "Column" THEN _column_projection(self, target, ctx)
        ELSE _lineage_columns(_projection_lineage(self, projection, ctx), FALSE)

_extract_select_columns(self, cache, root) ==
    LET selects == _final_selects(root)
        pairs == Concat([i \in 1..Len(selects) |->
                    Concat([j \in 1..Len(selects[i].expressions) |->
                        _projection_columns(self, selects[i].expressions[j],
                                            ContextOf(cache, selects[i].id))])])
    IN  FoldSeq(LAMBDA entries, pair :
                    IF \E i \in 1..Len(entries) :
                           ColumnKey(entries[i].column) = ColumnKey(pair.column)
                    THEN [i \in 1..Len(entries) |->
                            IF ColumnKey(entries[i].column) = ColumnKey(pair.column)
                            THEN [entries[i] EXCEPT !.direct = @ \/ pair.direct]
                            ELSE entries[i]]
                    ELSE Append(entries, pair),
                <<>>, pairs)

(***************************************************************************)
(* Joins and filters.                                                      *)
(***************************************************************************)
SqlSymbol(kind) ==
    CASE kind = "EQ" -> " = "    [] kind = "NEQ" -> " <> "
      [] kind = "LT" -> " < "    [] kind = "LTE" -> " <= "
      [] kind = "GT" -> " > "    [] kind = "GTE" -> " >= "
      [] kind = "Add" -> " + "   [] kind = "Mul" -> " * "
      [] kind = "And" -> " AND " [] kind = "Or" -> " OR "
      [] kind = "Like" -> " LIKE " [] kind = "Is" -> " IS "
      [] OTHER -> " ? "

\* expression.key.upper()
KeyUpper(kind) ==
    CASE kind = "In" -> "IN"     [] kind = "Between" -> "BETWEEN"
      [] kind = "Like" -> "LIKE" [] kind = "Is" -> "IS"
      [] kind = "Not" -> "NOT"   [] kind = "Exists" -> "EXISTS"
      [] kind = "Sum" -> "SUM"   [] kind = "Count" -> "COUNT"
      [] kind = "Upper" -> "UPPER" [] kind = "Column" -> "COLUMN"
      [] kind = "Literal" -> "LITERAL" [] kind = "EQ" -> "EQ"
      [] OTHER -> kind

RECURSIVE Sql(_)
\* expression.sql(dialect): the canonical text of an expression
Sql(e) ==
    CASE e.kind = "Column" -> IF e.table # "" THEN e.table \o "." \o e.name ELSE e.name
      [] e.kind \in {"Literal", "Null"} -> e.this
      [] e.kind = "Star" -> "*"
      [] e.kind = "Paren" -> "(" \o Sql(e.this) \o ")"
      [] e.kind = "Not" -> "NOT " \o Sql(e.this)
      [] e.kind \in {"Sum", "Count", "Upper"} -> KeyUpper(e.kind) \o "(" \o Sql(e.this) \o ")"
      [] e.kind \in BinaryKinds -> Sql(e.this) \o SqlSymbol(e.kind) \o Sql(e.expression)
      [] e.kind = "In" ->
            Sql(e.this) \o " IN ("
            \o FoldSeq(LAMBDA acc, x : acc \o ", " \o Sql(x),
                       Sql(e.expressions[1]), Tail(e.expressions)) \o ")"
      [] e.kind = "Between" ->
            Sql(e.this) \o " BETWEEN " \o Sql(e.low) \o " AND " \o Sql(e.high)
      [] OTHER -> "?"

RECURSIVE _flatten_conditions_and_only(_)
\* the flattening that stops at OR: only AND is a logical type
_flatten_conditions_and_only(condition) ==
    IF condition = None THEN <<>>
    ELSE IF condition.kind = "Paren" THEN _flatten_conditions_and_only(condition.this)
    ELSE IF condition.kind = "And"
    THEN _flatten_conditions_and_only(condition.this)
         \o _flatten_conditions_and_only(condition.expression)
    ELSE <<condition>>

\* variant: the right branch of AND / OR is flattened before the left one
RECURSIVE _flatten_conditions_right_first(_)
_flatten_conditions_right_first(condition) ==
    IF condition = None THEN <<>>
    ELSE IF condition.kind = "Paren" THEN _flatten_conditions_right_first(condition.this)
    ELSE IF condition.kind \in {"And", "Or"}
    THEN _flatten_conditions_right_first(condition.expression)
         \o _flatten_conditions_right_first(condition.this)
    ELSE <<condition>>

RECURSIVE _flatten_conditions(_)
_flatten_conditions(condition) ==
    IF condition = None THEN <<>>
    ELSE IF condition.kind = "Paren" THEN _flatten_conditions(condition.this)
    ELSE IF condition.kind \in {"And", "Or"}
    THEN _flatten_conditions(condition.this) \o _flatten_conditions(condition.expression)
    ELSE <<condition>>

_format_join_type(join) ==
    LET parts == SelectSeq(<<join.side, join.jkind>>, LAMBDA part : part # "")
        named == IF parts = <<>> THEN <<"INNER">> ELSE parts
    IN  FoldSeq(LAMBDA acc, part : acc \o part \o " ", "", named) \o "JOIN"

\* the sources of a relation and, when the list returned is the very list held
\* by self._alias_to_table, the key it is held under (ref, else "")
_relation_sources(self, relation) ==
    LET by_alias == DictGet(self.alias_to_table, relation.alias, <<>>)
        by_lower == DictGet(self.alias_to_table, Lower(relation.alias), <<>>)
        fresh(sources) == [sources |-> sources, ref |-> ""]
    IN  CASE relation = None -> fresh(<<>>)
          [] relation.kind = "Table" ->
                fresh(_sources_for_table_reference(relation, self.cte_context))
          [] relation.kind = "Subquery" ->
                IF relation.alias # "" /\ by_alias # <<>>
                THEN [sources |-> by_alias, ref |-> relation.alias]
                ELSE IF relation.alias # "" /\ by_lower # <<>>
                THEN [sources |-> by_lower, ref |-> Lower(relation.alias)]
                ELSE fresh(_tables_for_subexpression(self, relation.this, self.cte_context))
          [] relation.kind = "Identifier" ->
                IF DictGet(self.alias_to_table, relation.this, <<>>) # <<>>
                THEN [sources |-> DictGet(self.alias_to_table, relation.this, <<>>),
                      ref |-> relation.this]
                ELSE fresh(<<>>)
          [] OTHER -> fresh(<<>>)

HasArg(e, arg) == arg \in DOMAIN e

\* [column, complex]: the representative Column of an operand (None when the
\* operand is absent) and its text when it is not a bare column ("" otherwise)
\* variant: the subtree of a complex operand is not searched for a column
_extract_join_operand_unsearched(self, expression, ctx) ==
    IF expression = None THEN [column |-> None, complex |-> ""]
    ELSE IF expression.kind = "Column"
    THEN [column |-> _column_from_expression(self, expression, ctx), complex |-> ""]
    ELSE [column |-> Column(Sql(expression), <<>>), complex |-> Sql(expression)]

_extract_join_operand(self, expression, ctx) ==
    LET nested == find_all(expression, "Column")
        \* if column is None: column = Column(col_name=complex_sql, ...)
        operand(column, complex_sql) ==
            [column |-> IF column = None THEN Column(complex_sql, <<>>) ELSE column,
             complex |-> complex_sql]
    IN  IF expression = None THEN [column |-> None, complex |-> ""]
        ELSE IF expression.kind = "Column"
        THEN [column |-> _column_from_expression(self, expression, ctx), complex |-> ""]
        ELSE operand(IF nested = <<>> THEN None
                     ELSE _column_from_expression(self, nested[1], ctx),
                     Sql(expression))

Intersects(sources, tables) == Range(sources) \cap Range(tables) # {}

\* the pair of one comparator of an ON clause, orientation repaired
ConditionPair(self, comparator, left_sources, right_sources) ==
    LET pair(first, second) ==
            [column_left |-> IF first.column = None THEN Column("", <<>>)
                             ELSE first.column,
             column_right |-> IF second.column = None THEN Column("", <<>>)
                              ELSE second.column,
             complex_left |-> first.complex,
             complex_right |-> second.complex]
        \* l, r: the operands as written
        oriented(l, r) ==
            LET both == l.column # None /\ r.column # None
                left_from_left == Intersects(left_sources, l.column.potential_tables)
                right_from_left == Intersects(left_sources, r.column.potential_tables)
                left_from_right == Intersects(right_sources, l.column.potential_tables)
                right_from_right == Intersects(right_sources, r.column.potential_tables)
                swap == both /\ (\/ (~left_from_left /\ right_from_left)
                                 \/ (~right_from_right /\ left_from_right))
            IN  IF swap THEN pair(r, l) ELSE pair(l, r)
    IN  oriented(_extract_join_operand(
                     self, IF HasArg(comparator, "this") THEN comparator.this ELSE None,
                     None),
                 _extract_join_operand(
                     self, IF HasArg(comparator, "expression") THEN comparator.expression
                           ELSE None,
                     None))

_columns_from_condition(self, condition, left_sources, right_sources) ==
    LET comparators == _flatten_conditions(condition)
    IN  [i \in 1..Len(comparators) |->
            ConditionPair(self, comparators[i], left_sources, right_sources)]

\* USING columns resolved like unqualified references: every table of the join
\* on both sides
_columns_from_using_resolved(using_columns, left_sources, right_sources) ==
    LET named == SelectSeq(using_columns, LAMBDA identifier : identifier # "")
        resolved == _merge_sources(left_sources, right_sources)
    IN  [i \in 1..Len(named) |->
            [column_left |-> Column(named[i], resolved),
             column_right |-> Column(named[i], resolved),
             complex_left |-> "", complex_right |-> ""]]

_columns_from_using(using_columns, left_sources, right_sources) ==
    LET named == SelectSeq(using_columns, LAMBDA identifier : identifier # "")
    IN  [i \in 1..Len(named) |->
            [column_left |-> Column(named[i], left_sources),
             column_right |-> Column(named[i], right_sources),
             complex_left |-> "", complex_right |-> ""]]

\* variant: the tables of the joined relation are merged into the left side
\* before the entries of the join are produced
_extract_joins_for_select_merged_first(self, select) ==
    LET start(from_sources) ==
            [joins |-> <<>>, left |-> from_sources.sources,
             ref |-> from_sources.ref, writes |-> <<>>]
        \* the entries of one join appended, left_sources = _merge_sources(...)
        joined(acc, join, pairs, merged) ==
            [joins |-> acc.joins \o
                 [i \in 1..Len(pairs) |->
                     [join_type |-> _format_join_type(join)] @@ pairs[i]],
             left |-> merged.result,
             ref |-> IF merged.result_is_left THEN acc.ref ELSE "",
             writes |-> IF acc.ref # "" /\ merged.left # acc.left
                        THEN Append(acc.writes, [k |-> acc.ref, v |-> merged.left])
                        ELSE acc.writes]
        paired(acc, join, right_sources) ==
            joined(acc, join,
                   _columns_from_condition(self, join.on,
                                           _merge_sources(acc.left, right_sources),
                                           right_sources)
                   \o _columns_from_using(join.using,
                                          _merge_sources(acc.left, right_sources),
                                          right_sources),
                   _merge_sources_effect(acc.left, right_sources))
        step(acc, join) == paired(acc, join, _relation_sources(self, join.this).sources)
        finish(done) == [joins |-> done.joins, writes |-> done.writes]
    IN  IF select.from = None THEN [joins |-> <<>>, writes |-> <<>>]
        ELSE finish(FoldSeq(step, start(_relation_sources(self, select.from.this)),
                            select.joins))

\* [joins, writes]: the join entries of one SELECT, and the writes made to lists
\* held by self._alias_to_table, as [k, v]
_extract_joins_for_select(self, select) ==
    LET start(from_sources) ==
            [joins |-> <<>>, left |-> from_sources.sources,
             ref |-> from_sources.ref, writes |-> <<>>]
        \* the entries of one join appended, left_sources = _merge_sources(...)
        joined(acc, join, pairs, merged) ==
            [joins |-> acc.joins \o
                 [i \in 1..Len(pairs) |->
                     [join_type |-> _format_join_type(join)] @@ pairs[i]],
             left |-> merged.result,
             ref |-> IF merged.result_is_left THEN acc.ref ELSE "",
             writes |-> IF acc.ref # "" /\ merged.left # acc.left
                        THEN Append(acc.writes, [k |-> acc.ref, v |-> merged.left])
                        ELSE acc.writes]
        paired(acc, join, right_sources) ==
            joined(acc, join,
                   _columns_from_condition(self, join.on, acc.left, right_sources)
                   \o _columns_from_using(join.using, acc.left, right_sources),
                   _merge_sources_effect(acc.left, right_sources))
        step(acc, join) == paired(acc, join, _relation_sources(self, join.this).sources)
        finish(done) == [joins |-> done.joins, writes |-> done.writes]
    IN  IF select.from = None THEN [joins |-> <<>>, writes |-> <<>>]
        ELSE finish(FoldSeq(step, start(_relation_sources(self, select.from.this)),
                            select.joins))

_extract_joins(self, root) ==
    LET selects == find_all(root, "Select")
        extend(each) ==
            [joins |-> Concat([i \in 1..Len(each) |-> each[i].joins]),
             writes |-> Concat([i \in 1..Len(each) |-> each[i].writes])]
    IN  extend([i \in 1..Len(selects) |-> _extract_joins_for_select(self, selects[i])])

RECURSIVE _build_lineage_columns(_)
_build_lineage_columns(entries) ==
    FoldSeq(LAMBDA acc, entry :
                IF entry.name = "" THEN acc
                ELSE Append(acc, [col_name |-> entry.name,
                                  potential_tables |-> entry.tables,
                                  lineage |-> _build_lineage_columns(entry.lineage)]),
            <<>>, entries)

_column_with_lineage(self, column, ctx) ==
    LET column_obj == _column_from_expression(self, column, ctx)
    IN  IF column_obj = None THEN None
        ELSE [column_obj EXCEPT !.lineage =
                _build_lineage_columns(
                    _column_lineage_for_reference(self, column.table, ctx, column.name))]

_filter_columns(self, comparator, ctx) ==
    LET found == find_all(comparator, "Column")
        columns == SelectSeq([i \in 1..Len(found) |->
                                 _column_with_lineage(self, found[i], ctx)],
                             LAMBDA column : column # None)
    IN  AppendUnique(<<>>, columns)

_format_filter_operator(comparator) ==
    CASE comparator.kind = "EQ" -> "="   [] comparator.kind = "NEQ" -> "!="
      [] comparator.kind = "LT" -> "<"   [] comparator.kind = "LTE" -> "<="
      [] comparator.kind = "GT" -> ">"   [] comparator.kind = "GTE" -> ">="
      [] OTHER -> KeyUpper(comparator.kind)

_filters_from_condition(self, condition, filter_type, ctx) ==
    LET comparators == _flatten_conditions(condition)
    IN  [i \in 1..Len(comparators) |->
            [query |-> Sql(comparators[i]),
             filter_type |-> filter_type,
             operator |-> _format_filter_operator(comparators[i]),
             columns |-> _filter_columns(self, comparators[i], ctx)]]

_extract_filters(self, cache, root) ==
    LET selects == find_all(root, "Select")
        of(select) ==
            (IF select.where # None /\ select.where.this # None
             THEN _filters_from_condition(self, select.where.this, "WHERE",
                                          ContextOf(cache, select.id))
             ELSE <<>>)
            \o (IF select.having # None /\ select.having.this # None
                THEN _filters_from_condition(self, select.having.this, "HAVING",
                                             ContextOf(cache, select.id))
                ELSE <<>>)
    IN  Concat([i \in 1..Len(selects) |-> of(selects[i])])

(***************************************************************************)
(* What __init__ does besides computing values: the SELECTs whose context  *)
(* it builds (never through the cache), and whether a resolution reads     *)
(* self._alias_to_table, which __init__ assigns only after both registries *)
(* are built.  Both follow the call structure of the routines above.       *)
(***************************************************************************)
RelationAlias(relation) ==
    CASE relation.kind = "Table" ->
            IF relation.alias # "" THEN relation.alias ELSE relation.name
      [] relation.kind = "Subquery" -> relation.alias
      [] relation.kind = "Identifier" -> relation.this
      [] OTHER -> ""

\* a projection column of select that _resolve_column_sources cannot match to
\* a relation of the SELECT, so that it goes on to the global alias map
ReadsAliasMap(select) ==
    \E i \in 1..Len(select.expressions) :
        /\ _output_column_name(select.expressions[i]) # ""
        /\ \E column \in Range(find_all(select.expressions[i], "Column")) :
            /\ column.table # ""
            /\ \A relation \in Range(RelationNodes(select)) :
                   Lower(RelationAlias(relation)) # Lower(column.table)

RECURSIVE BuiltBySubexpression(_), BuiltByBuild(_), BuiltByCtes(_)
\* _build_select_context(select): the ids it is run on, in call order
BuiltByBuild(select) ==
    <<select.id>> \o
    Concat([i \in 1..Len(RelationNodes(select)) |->
               IF RelationNodes(select)[i].kind = "Subquery"
               THEN BuiltBySubexpression(RelationNodes(select)[i].this)
               ELSE <<>>])
\* _collect_cte_sources(expression)
BuiltByCtes(expression) ==
    IF expression.kind \in {"Select", "Union"} /\ expression.with # None
    THEN Concat([i \in 1..Len(expression.with.expressions) |->
                    IF expression.with.expressions[i].alias = "" THEN <<>>
                    ELSE BuiltBySubexpression(expression.with.expressions[i].this)])
    ELSE <<>>
\* _tables_for_subexpression(expression) then _columns_for_subexpression(expression)
BuiltBySubexpression(expression) ==
    BuiltByCtes(expression)
    \o (IF expression.kind = "Select" THEN BuiltByBuild(expression) ELSE <<>>)

AliasedSubqueries(root) ==
    SelectSeq(find_all(root, "Subquery"), LAMBDA subquery : subquery.alias # "")

\* __init__: _collect_cte_sources(root), then the aliased subqueries of _collect_tables
BuiltByInit(root) ==
    BuiltByCtes(root)
    \o Concat([i \in 1..Len(AliasedSubqueries(root)) |->
                  BuiltBySubexpression(AliasedSubqueries(root)[i].this)])

\* the relations of a SELECT that _relation_sources resolves by walking the
\* subquery: a subquery whose alias is not bound in self._alias_to_table
BuiltByJoins(self, root) ==
    LET selects == find_all(root, "Select")
        walked(select) ==
            IF select.from = None THEN <<>>
            ELSE SelectSeq(RelationNodes(select),
                    LAMBDA relation :
                        /\ relation.kind = "Subquery"
                        /\ _relation_sources(self, relation).ref = "")
        built(relations) ==
            Concat([j \in 1..Len(relations) |-> BuiltByCtes(relations[j].this)])
    IN  Concat([i \in 1..Len(selects) |-> built(walked(selects[i]))])

SelectsBuiltInInit(root) ==
    LET ids == BuiltByInit(root)
        selects == find_all(root, "Select")
    IN  SelectSeq(selects, LAMBDA select : InSeq(select.id, ids))

\* __init__ raises AttributeError: some context it builds reads the alias map
InitReadsAliasMap(root) == \E select \in Range(SelectsBuiltInInit(root)) : ReadsAliasMap(select)

(***************************************************************************)
(* The statements.                                                         *)
(***************************************************************************)
MaxDepth == 4       \* longest chain of pass-through CTEs
MaxCalls == 2       \* public calls a thread makes

CteNames == <<"c1", "c2", "c3", "c4", "c5", "c6">>

NoJoins == <<>>
NoCtes == <<>>

\* WITH c1 AS (SELECT a, b FROM S.T), c2 AS (SELECT a, b FROM c1), ...
\* SELECT a FROM cN
ChainPlain(n) ==
    Select(n + 1,
           [k \in 1..n |->
               CTE(CteNames[k],
                   Select(k, NoCtes, <<Col("", "a"), Col("", "b")>>,
                          IF k = 1 THEN Tbl("", "S", "T", "")
                          ELSE Tbl("", "", CteNames[k - 1], ""),
                          NoJoins, None, None))],
           <<Col("", "a")>>, Tbl("", "", CteNames[n], ""), NoJoins, None, None)

\* WITH c1 AS (SELECT t.a, t.b FROM T t), c2 AS (SELECT x.a, x.b FROM c1 x), ...
\* SELECT x.A, x.b FROM cN x
ChainAliased(n) ==
    Select(n + 1,
           [k \in 1..n |->
               CTE(CteNames[k],
                   IF k = 1
                   THEN Select(k, NoCtes, <<Col("t", "a"), Col("t", "b")>>,
                               Tbl("", "", "T", "t"), NoJoins, None, None)
                   ELSE Select(k, NoCtes, <<Col("x", "a"), Col("x", "b")>>,
                               Tbl("", "", CteNames[k - 1], "x"), NoJoins, None, None))],
           <<Col("x", "A"), Col("x", "b")>>, Tbl("", "", CteNames[n], "x"),
           NoJoins, None, None)

\* SELECT a, b, a + b AS s FROM T
Computed(id) ==
    Select(id, NoCtes,
           <<Col("", "a"), Col("", "b"),
             AliasE(Bin("Add", Col("", "a"), Col("", "b")), "s")>>,
           Tbl("", "", "T", ""), NoJoins, None, None)

\* SELECT t1.a, b FROM S.T t1 LEFT JOIN T2 t2 ON t1.id = t2.id WHERE b > 1
QBasic ==
    Select(1, NoCtes, <<Col("t1", "a"), Col("", "b")>>, Tbl("", "S", "T", "t1"),
           <<JoinOn(Tbl("", "", "T2", "t2"), "LEFT", "",
                    Bin("EQ", Col("t1", "id"), Col("t2", "id")))>>,
           Bin("GT", Col("", "b"), Lit("1")), None)

\* SELECT * FROM (SELECT a, b, a + b AS s FROM T)
QStarComputed ==
    Select(1, NoCtes, <<Star>>, Subq(Computed(2), ""), NoJoins, None, None)

\* SELECT x.* FROM (SELECT a, b, a + b AS s FROM T) x
QAliasStarComputed ==
    Select(1, NoCtes, <<Col("x", "*")>>, Subq(Computed(2), "x"), NoJoins, None, None)

\* WITH c1 AS (SELECT a, 1 AS one FROM T) SELECT c1.* FROM c1
QStarConstant ==
    Select(2, <<CTE("c1", Select(1, NoCtes, <<Col("", "a"), AliasE(Lit("1"), "one")>>,
                                 Tbl("", "", "T", ""), NoJoins, None, None))>>,
           <<Col("c1", "*")>>, Tbl("", "", "c1", ""), NoJoins, None, None)

\* WITH c1 AS (SELECT a AS b FROM S.T) SELECT c1.* FROM c1 WHERE b > 1
QStarRenamed ==
    Select(2, <<CTE("c1", Select(1, NoCtes, <<AliasE(Col("", "a"), "b")>>,
                                 Tbl("", "S", "T", ""), NoJoins, None, None))>>,
           <<Col("c1", "*")>>, Tbl("", "", "c1", ""), NoJoins,
           Bin("GT", Col("", "b"), Lit("1")), None)

\* WITH c1 AS (SELECT x.a FROM T) SELECT a FROM c1
QCteQualifier ==
    Select(2, <<CTE("c1", Select(1, NoCtes, <<Col("x", "a")>>,
                                 Tbl("", "", "T", ""), NoJoins, None, None))>>,
           <<Col("", "a")>>, Tbl("", "", "c1", ""), NoJoins, None, None)

\* SELECT s.a FROM (SELECT x.a FROM T) s
QSubqueryQualifier ==
    Select(1, NoCtes, <<Col("s", "a")>>,
           Subq(Select(2, NoCtes, <<Col("x", "a")>>, Tbl("", "", "T", ""),
                       NoJoins, None, None), "s"),
           NoJoins, None, None)

\* SELECT x.a FROM T WHERE x.b > 1
QTopQualifier ==
    Select(1, NoCtes, <<Col("x", "a")>>, Tbl("", "", "T", ""), NoJoins,
           Bin("GT", Col("x", "b"), Lit("1")), None)

\* SELECT s.a FROM (SELECT a FROM T1) s JOIN T2 ON s.a = T2.a
QSubqueryJoin ==
    Select(1, NoCtes, <<Col("s", "a")>>,
           Subq(Select(2, NoCtes, <<Col("", "a")>>, Tbl("", "", "T1", ""),
                       NoJoins, None, None), "s"),
           <<JoinOn(Tbl("", "", "T2", ""), "", "",
                    Bin("EQ", Col("s", "a"), Col("T2", "a")))>>,
           None, None)

\* WITH u AS (SELECT id, a FROM T1 UNION ALL SELECT id, a FROM T2)
\* SELECT id, a FROM u HAVING a > 1
QUnionCte ==
    Select(3, <<CTE("u", Union(NoCtes,
                    Select(1, NoCtes, <<Col("", "id"), Col("", "a")>>,
                           Tbl("", "", "T1", ""), NoJoins, None, None),
                    Select(2, NoCtes, <<Col("", "id"), Col("", "a")>>,
                           Tbl("", "", "T2", ""), NoJoins, None, None)))>>,
           <<Col("", "id"), Col("", "a")>>, Tbl("", "", "u", ""), NoJoins,
           None, Bin("GT", Col("", "a"), Lit("1")))

\* SELECT * FROM T1 c JOIN T2 v USING (id)
QUsing ==
    Select(1, NoCtes, <<Star>>, Tbl("", "", "T1", "c"),
           <<JoinUsing(Tbl("", "", "T2", "v"), "", "", <<"id">>)>>, None, None)

ColumnNames == <<"a", "b", "c", "n", "x", "y">>

\* WITH c1 AS (SELECT a AS b FROM S.T), c2 AS (SELECT b AS c FROM c1), ...
\* SELECT <last> FROM cN HAVING <last> > 1
ChainRenamed(n) ==
    Select(n + 1,
           [k \in 1..n |->
               CTE(CteNames[k],
                   Select(k, NoCtes, <<AliasE(Col("", ColumnNames[k]), ColumnNames[k + 1])>>,
                          IF k = 1 THEN Tbl("", "S", "T", "")
                          ELSE Tbl("", "", CteNames[k - 1], ""),
                          NoJoins, None, None))],
           <<Col("", ColumnNames[n + 1])>>, Tbl("", "", CteNames[n], ""), NoJoins,
           None, Bin("GT", Col("", ColumnNames[n + 1]), Lit("1")))

\* SELECT c FROM (SELECT b AS c FROM (SELECT a AS b FROM S.T) s) u WHERE u.c > 1
QSubqueryChain ==
    Select(1, NoCtes, <<Col("", "c")>>,
           Subq(Select(2, NoCtes, <<AliasE(Col("", "b"), "c")>>,
                       Subq(Select(3, NoCtes, <<AliasE(Col("", "a"), "b")>>,
                                   Tbl("", "S", "T", ""), NoJoins, None, None), "s"),
                       NoJoins, None, None), "u"),
           NoJoins, Bin("GT", Col("u", "c"), Lit("1")), None)

\* WITH c1 AS (SELECT a AS b FROM S.T), c2 AS (SELECT c1.* FROM c1)
\* SELECT b FROM c2 HAVING b > 1
QStarChain ==
    Select(3, <<CTE("c1", Select(1, NoCtes, <<AliasE(Col("", "a"), "b")>>,
                                 Tbl("", "S", "T", ""), NoJoins, None, None)),
                CTE("c2", Select(2, NoCtes, <<Col("c1", "*")>>,
                                 Tbl("", "", "c1", ""), NoJoins, None, None))>>,
           <<Col("", "b")>>, Tbl("", "", "c2", ""), NoJoins,
           None, Bin("GT", Col("", "b"), Lit("1")))

\* SELECT c, COUNT(id) y FROM
\*   (SELECT id, COUNT(n) c FROM S.T WHERE x > 1 HAVING c > 2)
QHavingAggregate ==
    Select(1, NoCtes, <<Col("", "c"), AliasE(Fn("Count", Col("", "id")), "y")>>,
           Subq(Select(2, NoCtes,
                       <<Col("", "id"), AliasE(Fn("Count", Col("", "n")), "c")>>,
                       Tbl("", "S", "T", ""), NoJoins,
                       Bin("GT", Col("", "x"), Lit("1")),
                       Bin("GT", Col("", "c"), Lit("2"))), ""),
           NoJoins, None, None)

\* SELECT a FROM T1 CROSS JOIN T2 UNION ALL SELECT a FROM T2 CROSS JOIN T1
QUnionCross ==
    Union(NoCtes,
          Select(1, NoCtes, <<Col("", "a")>>, Tbl("", "", "T1", ""),
                 <<JoinOn(Tbl("", "", "T2", ""), "", "CROSS", None)>>, None, None),
          Select(2, NoCtes, <<Col("", "a")>>, Tbl("", "", "T2", ""),
                 <<JoinOn(Tbl("", "", "T1", ""), "", "CROSS", None)>>, None, None))

\* SELECT a FROM T1 JOIN T2 ON UPPER(T2.n) = T1.n AND b = 1
QJoinComplex ==
    Select(1, NoCtes, <<Col("", "a")>>, Tbl("", "", "T1", ""),
           <<JoinOn(Tbl("", "", "T2", ""), "", "",
                    Bin("And", Bin("EQ", Fn("Upper", Col("T2", "n")), Col("T1", "n")),
                               Bin("EQ", Col("", "b"), Lit("1"))))>>,
           None, None)

\* SELECT v.id FROM T1 c JOIN T2 v USING (id, n) LEFT JOIN T USING (id) WHERE n > 1
\* SELECT a.id FROM T1 a JOIN T2 b USING (id) LEFT JOIN T c ON c.id = a.id
\*                       RIGHT JOIN T2 d USING (n, id)
QJoinChain ==
    Select(1, NoCtes, <<Col("a", "id")>>, Tbl("", "", "T1", "a"),
           <<JoinUsing(Tbl("", "", "T2", "b"), "", "", <<"id">>),
             JoinOn(Tbl("", "", "T", "c"), "LEFT", "",
                    Bin("EQ", Col("c", "id"), Col("a", "id"))),
             JoinUsing(Tbl("", "", "T2", "d"), "RIGHT", "", <<"n", "id">>)>>,
           None, None)

\* SELECT p.a FROM S.T p LEFT JOIN T2 s
\*     ON p.id = s.id OR (p.n >= s.n AND (p.x <> s.x))
QJoinOr ==
    Select(1, NoCtes, <<Col("p", "a")>>, Tbl("", "S", "T", "p"),
           <<JoinOn(Tbl("", "", "T2", "s"), "LEFT", "",
                    Bin("Or", Bin("EQ", Col("p", "id"), Col("s", "id")),
                        Paren(Bin("And", Bin("GTE", Col("p", "n"), Col("s", "n")),
                                  Paren(Bin("NEQ", Col("p", "x"), Col("s", "x")))))))>>,
           None, None)

\* SELECT x.a FROM T1 x JOIN T2 y ON x.id = y.id AND n = y.n
\*     WHERE EXISTS (SELECT 1 FROM T x WHERE x.c = 1)
QJoinShadow ==
    Select(1, NoCtes, <<Col("x", "a")>>, Tbl("", "", "T1", "x"),
           <<JoinOn(Tbl("", "", "T2", "y"), "", "",
                    Bin("And", Bin("EQ", Col("x", "id"), Col("y", "id")),
                               Bin("EQ", Col("", "n"), Col("y", "n"))))>>,
           Fn("Exists",
              Select(2, NoCtes, <<Lit("1")>>, Tbl("", "", "T", "x"), NoJoins,
                     Bin("EQ", Col("x", "c"), Lit("1")), None)),
           None)

\* WITH c1 AS (SELECT b FROM c2), c2 AS (SELECT a FROM T) SELECT b FROM c1
\* (c2 in the body of c1 is a table of that name: the CTE c2 comes later)
QCteForward ==
    Select(3, <<CTE("c1", Select(1, NoCtes, <<Col("", "b")>>, Tbl("", "", "c2", ""),
                                 NoJoins, None, None)),
                CTE("c2", Select(2, NoCtes, <<Col("", "a")>>, Tbl("", "", "T", ""),
                                 NoJoins, None, None))>>,
           <<Col("", "b")>>, Tbl("", "", "c1", ""), NoJoins, None, None)

\* WITH c AS (WITH n AS (SELECT a FROM T) SELECT a FROM n) SELECT a FROM c
QCteNested ==
    Select(3, <<CTE("c", Select(2, <<CTE("n", Select(1, NoCtes, <<Col("", "a")>>,
                                                    Tbl("", "", "T", ""),
                                                    NoJoins, None, None))>>,
                                <<Col("", "a")>>, Tbl("", "", "n", ""),
                                NoJoins, None, None))>>,
           <<Col("", "a")>>, Tbl("", "", "c", ""), NoJoins, None, None)

\* SELECT b AS a, a AS c FROM T
QAliasClash ==
    Select(1, NoCtes, <<AliasE(Col("", "b"), "a"), AliasE(Col("", "a"), "c")>>,
           Tbl("", "", "T", ""), NoJoins, None, None)

QUsingTwice ==
    Select(1, NoCtes, <<Col("v", "id")>>, Tbl("", "", "T1", "c"),
           <<JoinUsing(Tbl("", "", "T2", "v"), "", "", <<"id", "n">>),
             JoinUsing(Tbl("", "", "T", ""), "LEFT", "", <<"id">>)>>,
           Bin("GT", Col("", "n"), Lit("1")), None)

\* SELECT id, SUM(b) AS s FROM S.T t
\* WHERE (a IN ('A', 'B') OR b BETWEEN 1 AND 2) AND c LIKE 'N%' AND n IS NULL
\*   AND EXISTS (SELECT 1 FROM T2 x WHERE x.id = t.id AND x.a <> 1)
\* HAVING COUNT(*) > 1 AND SUM(b) <= 5
QFilterVariety ==
    Select(1, NoCtes, <<Col("", "id"), AliasE(Fn("Sum", Col("", "b")), "s")>>,
           Tbl("", "S", "T", "t"), NoJoins,
           Bin("And",
               Bin("And",
                   Bin("And",
                       Paren(Bin("Or",
                                 [kind |-> "In", this |-> Col("", "a"),
                                  expressions |-> <<Lit("'A'"), Lit("'B'")>>],
                                 [kind |-> "Between", this |-> Col("", "b"),
                                  low |-> Lit("1"), high |-> Lit("2")])),
                       Bin("Like", Col("", "c"), Lit("'N%'"))),
                   Bin("Is", Col("", "n"), [kind |-> "Null", this |-> "NULL"])),
               Fn("Exists",
                  Select(2, NoCtes, <<Lit("1")>>, Tbl("", "", "T2", "x"), NoJoins,
                         Bin("And", Bin("EQ", Col("x", "id"), Col("t", "id")),
                                    Bin("NEQ", Col("x", "a"), Lit("1"))),
                         None))),
           Bin("And", Bin("GT", Fn("Count", Star), Lit("1")),
                      Bin("LTE", Fn("Sum", Col("", "b")), Lit("5"))))

Trees ==
    { ChainPlain(n) : n \in 1..MaxDepth } \cup { ChainAliased(n) : n \in 1..MaxDepth }
    \cup { ChainRenamed(n) : n \in 1..MaxDepth }
    \cup { QBasic, QStarComputed, QAliasStarComputed, QStarConstant, QStarRenamed,
           QCteQualifier, QSubqueryQualifier, QTopQualifier, QSubqueryJoin,
           QUnionCte, QUsing, QUnionCross, QJoinComplex, QUsingTwice, QFilterVariety,
           QJoinChain, QJoinOr, QJoinShadow, QCteForward, QCteNested, QAliasClash,
           QSubqueryChain, QHavingAggregate, QStarChain }

\* the statements two threads read at once
SharedTrees == { QSubqueryJoin }

Whitespace == {" ", "\t", "\n"}

\* the text of a statement is its words between white space; sqlglot.parse_one
\* turns the text of a catalogue statement into its tree
Statement(tree) == [text |-> <<"\n", "SELECT", " ", "...", "\n">>, tree |-> tree]
Blank(text) == [text |-> text, tree |-> None]

Queries ==
    { Statement(tree) : tree \in Trees }
    \cup { Blank(<<>>), Blank(<<" ">>), Blank(<<"\n", "\t", " ">>) }

RECURSIVE lstrip(_)
lstrip(text) ==
    IF text # <<>> /\ Head(text) \in Whitespace THEN lstrip(Tail(text)) ELSE text
RECURSIVE rstrip(_)
rstrip(text) ==
    IF text # <<>> /\ text[Len(text)] \in Whitespace
    THEN rstrip(SubSeq(text, 1, Len(text) - 1)) ELSE text
\* the text as it is, not stripped
unstripped(text) == text

\* str.strip()
strip(text) == rstrip(lstrip(text))

(***************************************************************************)
(* The instance: construction, then public calls made by threads.          *)
(***************************************************************************)
Threads == {"t1", "t2"}
Memoized == {"source_columns", "select_columns", "joins", "filters"}
Locked == Memoized \cup {"source_tables", "feature_columns"}
Ops == Locked \cup {"column_lineage"}
LineageAliases == {"", "C1", "x"}

\* the threads that call into the instance built from q
Callers(q) == IF q.tree \in SharedTrees THEN Threads ELSE {"t1"}

\* the memo cell behind a public operation
Cell(o) == IF o = "feature_columns" THEN "source_columns" ELSE o

Unlocked == [owner |-> "", count |-> 0]

\* a memo cell: None until its extraction has stored a list
Unset == [kind |-> "None", value |-> <<>>]
Stored(list) == [kind |-> "list", value |-> list]

Init ==
    /\ query \in Queries
    /\ phase = "new"
    /\ cte_context = <<>>
    /\ cte_definitions = <<>>
    /\ cte_column_lineage = <<>>
    /\ alias_to_table = <<>>
    /\ alias_column_lineage = <<>>
    /\ alias_display_names = <<>>
    /\ source_tables = <<>>
    /\ select_context_cache = <<>>
    /\ memo = [c \in Memoized |-> Unset]
    /\ lock = Unlocked
    /\ pc = [t \in Threads |-> "idle"]
    /\ op = [t \in Threads |-> ""]
    /\ calls = [t \in Threads |-> 0]
    /\ runs = [c \in Memoized |-> 0]
    /\ builds = <<>>
    /\ returned = [o \in Ops |-> {}]
    /\ applied = None

registries == <<cte_context, cte_definitions, cte_column_lineage, alias_to_table,
                alias_column_lineage, alias_display_names, source_tables>>
results == <<select_context_cache, memo, runs, builds, returned>>
threads == <<lock, pc, op, calls>>

\* if not query or not query.strip()
IsBlank(text) == text = <<>> \/ strip(text) = <<>>

\* __init__ on an empty or all-white-space string
ConstructRejects ==
    /\ phase = "new"
    /\ IsBlank(query.text)
    /\ phase' = "ValueError"
    /\ UNCHANGED <<applied, query, registries, results, threads>>

\* __init__ when a context built for a CTE or an aliased subquery reads
\* self._alias_to_table, which is not assigned yet
ConstructRaises ==
    /\ phase = "new"
    /\ ~IsBlank(query.text)
    /\ InitReadsAliasMap(query.tree)
    /\ phase' = "AttributeError"
    /\ UNCHANGED <<applied, query, registries, results, threads>>

Construct ==
    /\ phase = "new"
    /\ ~IsBlank(query.text)
    /\ ~InitReadsAliasMap(query.tree)
    /\ LET \* line 29, with what _bind_alias has written in the meantime
           assign_tables(tables) ==
               /\ alias_to_table' = tables.alias_map
               /\ alias_column_lineage' = tables.lineage
               /\ alias_display_names' = tables.display
               /\ source_tables' = tables.tables
           \* line 28, then line 29
           assign(ctes) ==
               /\ cte_context' = ctes.context
               /\ cte_definitions' = ctes.definitions
               /\ cte_column_lineage' = ctes.column_definitions
               /\ assign_tables(_collect_tables(query.tree, ctes))
       IN  assign(_collect_cte_sources(DuringInit(<<>>), query.tree, <<>>, <<>>))
    /\ builds' = BuiltByInit(query.tree)
    /\ phase' = "ready"
    /\ UNCHANGED <<applied, query, select_context_cache, memo, runs, returned, threads>>

\* the instance fields the resolution routines read
Self ==
    [alias_to_table |-> alias_to_table, assigned |-> TRUE,
     alias_column_lineage |-> alias_column_lineage, source_tables |-> source_tables,
     cte_context |-> cte_context, cte_column_lineage |-> cte_column_lineage]

\* _select_context(select) on st = [cache, builds]
_select_context(self, st, select) ==
    IF DictHas(st.cache, select.id) THEN st
    ELSE [cache |-> DictPut(st.cache, select.id,
                        _build_select_context(self, select, self.cte_context,
                                              self.cte_column_lineage)),
          builds |-> st.builds \o BuiltByBuild(select)]

\* the cache and the builds after _select_context on each of selects in turn
Visit(selects) ==
    FoldSeq(LAMBDA st, select : _select_context(Self, st, select),
            [cache |-> select_context_cache, builds |-> builds], selects)

\* a public operation is entered
Call(t, o) ==
    /\ phase = "ready"
    /\ t \in Callers(query)
    /\ pc[t] = "idle"
    /\ calls[t] < MaxCalls
    /\ o \in Locked
    /\ op' = [op EXCEPT ![t] = o]
    /\ pc' = [pc EXCEPT ![t] = "enter"]
    /\ calls' = [calls EXCEPT ![t] = @ + 1]
    /\ UNCHANGED <<applied, query, phase, registries, results, lock>>

\* with self._lock: RLock.acquire, which the owner may re-enter
Acquire(t) ==
    /\ pc[t] = "enter"
    /\ lock.owner \in {"", t}
    /\ lock' = [owner |-> t, count |-> lock.count + 1]
    /\ pc' = [pc EXCEPT ![t] = "locked"]
    /\ UNCHANGED <<applied, query, phase, registries, results, op, calls>>

\* the extraction entered without the test of the memo cell
TestNothing(t) ==
    /\ pc[t] = "locked"
    /\ pc' = [pc EXCEPT ![t] = IF op[t] # "source_tables" THEN "extract" ELSE "return"]
    /\ UNCHANGED <<applied, query, phase, registries, results, lock, op, calls>>

\* if self._<cell> is None
Test(t) ==
    /\ pc[t] = "locked"
    /\ pc' = [pc EXCEPT ![t] =
                IF op[t] # "source_tables" /\ memo[Cell(op[t])] = Unset
                THEN "extract" ELSE "return"]
    /\ UNCHANGED <<applied, query, phase, registries, results, lock, op, calls>>

ExtractSourceColumns(t) ==
    /\ pc[t] = "extract"
    /\ Cell(op[t]) = "source_columns"
    /\ LET columns == SelectSeq(find_all_in(query.tree, {"Column"}),
                                LAMBDA c : c.node.name # "")
           store(st) ==
               /\ select_context_cache' = st.cache
               /\ builds' = st.builds
               /\ memo' = [memo EXCEPT !["source_columns"] =
                              Stored(_extract_source_columns(Self, st.cache, query.tree))]
       IN  store(Visit([i \in 1..Len(columns) |->
                           SelectById(query.tree, columns[i].sel)]))
    /\ runs' = [runs EXCEPT !["source_columns"] = @ + 1]
    /\ pc' = [pc EXCEPT ![t] = "return"]
    /\ UNCHANGED <<applied, query, phase, registries, returned, lock, op, calls>>

ExtractSelectColumns(t) ==
    /\ pc[t] = "extract"
    /\ op[t] = "select_columns"
    /\ LET store(st) ==
               /\ select_context_cache' = st.cache
               /\ builds' = st.builds
               /\ memo' = [memo EXCEPT !["select_columns"] =
                              Stored(_extract_select_columns(Self, st.cache, query.tree))]
       IN  store(Visit(_final_selects(query.tree)))
    /\ runs' = [runs EXCEPT !["select_columns"] = @ + 1]
    /\ pc' = [pc EXCEPT ![t] = "return"]
    /\ UNCHANGED <<applied, query, phase, registries, returned, lock, op, calls>>

\* a write [k, v] through a list held by self._alias_to_table changes the list
\* under every key that holds it
ApplyWrites(alias_map, writes) ==
    FoldSeq(LAMBDA acc, write :
                [i \in 1..Len(acc) |->
                    IF /\ Lower(acc[i].k) = Lower(write.k)
                       /\ acc[i].v = DictGet(acc, write.k, <<>>)
                    THEN [k |-> acc[i].k, v |-> write.v] ELSE acc[i]],
            alias_map, writes)

ExtractJoins(t) ==
    /\ pc[t] = "extract"
    /\ op[t] = "joins"
    /\ LET store(extracted) ==
               /\ memo' = [memo EXCEPT !["joins"] = Stored(extracted.joins)]
               /\ alias_to_table' = ApplyWrites(alias_to_table, extracted.writes)
       IN  store(_extract_joins(Self, query.tree))
    /\ builds' = builds \o BuiltByJoins(Self, query.tree)
    /\ runs' = [runs EXCEPT !["joins"] = @ + 1]
    /\ pc' = [pc EXCEPT ![t] = "return"]
    /\ UNCHANGED <<applied, query, phase, cte_context, cte_definitions, cte_column_lineage,
                   alias_column_lineage, alias_display_names, source_tables,
                   select_context_cache, returned, lock, op, calls>>

ExtractFilters(t) ==
    /\ pc[t] = "extract"
    /\ op[t] = "filters"
    /\ LET store(st) ==
               /\ select_context_cache' = st.cache
               /\ builds' = st.builds
               /\ memo' = [memo EXCEPT !["filters"] =
                              Stored(_extract_filters(Self, st.cache, query.tree))]
       IN  store(Visit(find_all(query.tree, "Select")))
    /\ runs' = [runs EXCEPT !["filters"] = @ + 1]
    /\ pc' = [pc EXCEPT ![t] = "return"]
    /\ UNCHANGED <<applied, query, phase, registries, returned, lock, op, calls>>

\* Column.as_dict
as_dict(column) == [name |-> column.col_name, potential_tables |-> column.potential_tables]

\* what the public operation o returns
Result(o) ==
    CASE o = "source_tables" -> source_tables
      [] o = "feature_columns" ->
            [i \in 1..Len(memo["source_columns"].value) |->
                as_dict(memo["source_columns"].value[i])]
      [] OTHER -> memo[o].value

\* return that leaves the lock held
ReturnHolding(t) ==
    /\ pc[t] = "return"
    /\ returned' = [returned EXCEPT ![op[t]] = @ \cup {Result(op[t])}]
    /\ pc' = [pc EXCEPT ![t] = "idle"]
    /\ UNCHANGED <<applied, query, phase, registries, select_context_cache, memo, runs,
                   builds, lock, op, calls>>

\* return from the with block: the value is handed back, the lock released
Return(t) ==
    /\ pc[t] = "return"
    /\ returned' = [returned EXCEPT ![op[t]] = @ \cup {Result(op[t])}]
    /\ lock' = IF lock.count <= 1 THEN Unlocked
               ELSE [lock EXCEPT !.count = @ - 1]
    /\ pc' = [pc EXCEPT ![t] = "idle"]
    /\ UNCHANGED <<applied, query, phase, registries, select_context_cache, memo, runs,
                   builds, op, calls>>

_format_lineage_map(lineage) ==
    FoldSeq(LAMBDA acc, item :
                DictPut(acc, IF item.v.name # "" THEN item.v.name ELSE item.k,
                        item.v.tables),
            <<>>, lineage)

column_lineage(alias) ==
    LET lineage == DictGet(alias_column_lineage, Lower(alias), <<>>)
        filled == SelectSeq(alias_column_lineage, LAMBDA item : item.v # <<>>)
    IN  IF alias # ""
        THEN IF lineage = <<>> THEN <<>>
             ELSE <<[k |-> DictGet(alias_display_names, Lower(alias), alias),
                     v |-> _format_lineage_map(lineage)]>>
        ELSE FoldSeq(LAMBDA acc, item :
                        DictPut(acc, DictGet(alias_display_names, item.k, item.k),
                                _format_lineage_map(item.v)),
                     <<>>, filled)

\* column_lineage(alias): reads the registries, takes no lock
ColumnLineage(t, alias) ==
    /\ phase = "ready"
    /\ t \in Callers(query)
    /\ pc[t] = "idle"
    /\ calls[t] < MaxCalls
    /\ calls' = [calls EXCEPT ![t] = @ + 1]
    /\ returned' = [returned EXCEPT !["column_lineage"] = @ \cup {column_lineage(alias)}]
    /\ UNCHANGED <<applied, query, phase, registries, select_context_cache, memo, runs,
                   builds, lock, pc, op>>

Next ==
    \/ ConstructRejects
    \/ ConstructRaises
    \/ Construct
    \/ \E t \in Threads :
        \/ \E o \in Locked : Call(t, o)
        \/ Acquire(t)
        \/ Test(t)
        \/ ExtractSourceColumns(t)
        \/ ExtractSelectColumns(t)
        \/ ExtractJoins(t)
        \/ ExtractFilters(t)
        \/ Return(t)
        \/ \E alias \in LineageAliases : ColumnLineage(t, alias)

Spec == Init /\ [][Next]_vars

\* thread t is inside a call and its next step can be taken: it is not
\* waiting for a lock that another thread owns
Runnable(t) ==
    \/ pc[t] = "enter" /\ lock.owner \in {"", t}
    \/ pc[t] \in {"locked", "extract", "return"}

\* thread t takes the next step of its call (Acquire, Test, an extraction or
\* Return): its position moves
Scheduled(t) ==
    /\ Runnable(t)
    /\ \E at \in {"idle", "locked", "extract", "return"} \ {pc[t]} :
            pc' = [pc EXCEPT ![t] = at]

\* the interpreter keeps scheduling a thread that can run
FairSpec == Spec /\ \A t \in Threads : WF_pc(Scheduled(t))

(***************************************************************************)
(* The routines on their own.  A routine is applied to arguments drawn     *)
(* from bounded sets, the instance fields it reads among them; __init__    *)
(* does not run, and the instance state stays as it is before it.          *)
(***************************************************************************)
MaxColumns == 3     \* longest list of columns handed to the ambiguity filter

\* potential_tables of a Column: none, one table, or several in either order
TableLists ==
    { <<>>, <<"T">>, <<"T1">>, <<"T2">>, <<"T1", "T2">>, <<"T2", "T1">>,
      <<"T", "T1", "T2">> }
ColumnLists ==
    LET choices == { Column(name, tables) : name \in {"a", "A", "b"},
                                            tables \in TableLists }
    IN  UNION { [1..n -> choices] : n \in 0..MaxColumns }

\* the instance after __init__, with the bindings _bind_alias leaves: each
\* alias under its three forms, its column lineage under the lowercase form
Bound(self, alias, tables, lineage) ==
    [self EXCEPT
        !.alias_to_table = DictPut(DictPut(DictPut(@, alias, tables), Lower(alias), tables),
                                   Upper(alias), tables),
        !.alias_column_lineage = IF lineage = <<>> THEN @
                                 ELSE DictPut(@, Lower(alias), lineage)]
Instances ==
    LET constructed == [alias_to_table |-> <<>>, assigned |-> TRUE,
                        alias_column_lineage |-> <<>>,
                        source_tables |-> <<"T1", "T2", "T3", "T4">>]
        declared(name, tables) == <<[k |-> name, v |-> Entry(name, tables, <<>>)]>>
    IN  { DuringInit(<<>>), constructed,
          Bound(Bound(constructed, "w", <<"T3", "T4">>, declared("a", <<"T3">>)),
                "s", <<"T4">>, declared("a", <<"T4">>)) }

\* a SELECT whose context is built, under the CTE tables and columns known then:
\*   SELECT a FROM T1
\*   SELECT a FROM S.T s LEFT JOIN T2 u ON s.id = u.id
\*   SELECT a FROM (SELECT a, b FROM T1) s JOIN (SELECT a FROM T2) u ON s.a = u.a
\*   SELECT a FROM (SELECT a FROM T1 CROSS JOIN T2) s CROSS JOIN T1 u
\*   SELECT b FROM c1 s CROSS JOIN T2      (c1 AS (SELECT a AS b FROM S.T))
Resolutions ==
    LET body(id, names, table) ==
            Select(id, NoCtes, [i \in 1..Len(names) |-> Col("", names[i])],
                   Tbl("", "", table, ""), NoJoins, None, None)
        on(l, r) == Bin("EQ", Col(l, "a"), Col(r, "a"))
        cross == Select(2, NoCtes, <<Col("", "a")>>, Tbl("", "", "T1", ""),
                        <<JoinOn(Tbl("", "", "T2", ""), "", "CROSS", None)>>, None, None)
        alone(select) == [select |-> select, table_context |-> <<>>,
                          column_context |-> <<>>]
    IN  { alone(body(1, <<"a">>, "T1")),
          alone(Select(1, NoCtes, <<Col("", "a")>>, Tbl("", "S", "T", "s"),
                       <<JoinOn(Tbl("", "", "T2", "u"), "LEFT", "",
                                Bin("EQ", Col("s", "id"), Col("u", "id")))>>,
                       None, None)),
          alone(Select(1, NoCtes, <<Col("", "a")>>, Subq(body(2, <<"a", "b">>, "T1"), "s"),
                       <<JoinOn(Subq(body(3, <<"a">>, "T2"), "u"), "", "", on("s", "u"))>>,
                       None, None)),
          alone(Select(1, NoCtes, <<Col("", "a")>>, Subq(cross, "s"),
                       <<JoinOn(Tbl("", "", "T1", "u"), "", "CROSS", None)>>, None, None)),
          [select |-> Select(1, NoCtes, <<Col("", "b")>>, Tbl("", "", "c1", "s"),
                             <<JoinOn(Tbl("", "", "T2", ""), "", "CROSS", None)>>,
                             None, None),
           table_context |-> <<[k |-> "c1", v |-> <<"S.T">>]>>,
           column_context |->
               <<[k |-> "c1",
                  v |-> <<[k |-> "b",
                           v |-> Entry("b", <<"S.T">>,
                                       <<Entry("a", <<"S.T">>, <<>>)>>)]>>]>>] }

\* the qualifier (none, an alias of the SELECT, an alias bound elsewhere in the
\* statement, an unknown one) and the name of the column that is resolved
Qualifiers == {"", "s", "S", "u", "t1", "w", "W", "x"}
ResolvedNames == {"a", "A", "b", "y"}

MaxEntries == 4     \* most entries, at all depths, of a lineage structure flattened

\* the lineage structures of n entries in all: lists of entries, each with a
\* name or none, tables or none, and a nested list of the same kind
RECURSIVE LineageLists(_)
LineageLists(n) ==
    IF n = 0 THEN { <<>> }
    ELSE UNION { { <<Entry(name, tables, nested)>> \o rest :
                     name \in {"", "a"}, tables \in {<<>>, <<"T">>},
                     nested \in LineageLists(k), rest \in LineageLists(n - 1 - k) } :
                 k \in 0..(n - 1) }

MaxBindings == 2    \* most bindings made one after the other by _bind_alias

\* the bindings _collect_tables makes: an alias, its tables, and the lineage of
\* its column a over those tables when it is a CTE or an aliased subquery
Bindings ==
    LET one == { [key |-> key, value |-> value,
                  column_lineage |-> IF declared
                                     THEN <<[k |-> "a", v |-> Entry("a", value, <<>>)]>>
                                     ELSE <<>>] :
                    key \in {"c", "C", "Cx", "cX", "w"},
                    value \in {<<"T1">>, <<"T2">>}, declared \in BOOLEAN }
    IN  UNION { [1..n -> one] : n \in 1..MaxBindings }

\* alias_map, self._alias_display_names and self._alias_column_lineage before
\* any binding
Unbound == [alias_map |-> <<>>, display |-> <<>>, lineage |-> <<>>]

\* a routine about to be run on args
Run(routine, args) ==
    [routine |-> routine, args |-> args, value |-> None, again |-> None, times |-> 0]

RoutineInit ==
    /\ applied \in { Run("_filter_redundant_ambiguity", [columns |-> columns]) :
                        columns \in ColumnLists }
                   \cup { Run("_resolve_column_sources",
                              [self |-> self, select |-> r.select,
                               table_context |-> r.table_context,
                               column_context |-> r.column_context,
                               qualifier |-> qualifier, column_name |-> column_name]) :
                           self \in Instances, r \in Resolutions,
                           qualifier \in Qualifiers, column_name \in ResolvedNames }
                   \cup { Run("_bind_alias", [bindings |-> bindings,
                                              qualifier |-> qualifier]) :
                           bindings \in Bindings, qualifier \in {"c", "Cx", "cX"} }
                   \cup { Run("_lineage_leaf_entries", [entries |-> entries]) :
                           entries \in UNION { LineageLists(n) : n \in 0..MaxEntries } }
    /\ query = Blank(<<>>)
    /\ phase = "routine"
    /\ cte_context = <<>>
    /\ cte_definitions = <<>>
    /\ cte_column_lineage = <<>>
    /\ alias_to_table = <<>>
    /\ alias_column_lineage = <<>>
    /\ alias_display_names = <<>>
    /\ source_tables = <<>>
    /\ select_context_cache = <<>>
    /\ memo = [c \in Memoized |-> Unset]
    /\ lock = Unlocked
    /\ pc = [t \in Threads |-> "idle"]
    /\ op = [t \in Threads |-> ""]
    /\ calls = [t \in Threads |-> 0]
    /\ runs = [c \in Memoized |-> 0]
    /\ builds = <<>>
    /\ returned = [o \in Ops |-> {}]

\* unique = self._filter_redundant_ambiguity(columns)
FilterColumns ==
    /\ phase = "routine"
    /\ applied.routine = "_filter_redundant_ambiguity"
    /\ applied.times = 0
    /\ applied' = [applied EXCEPT !.value = _filter_redundant_ambiguity(applied.args.columns),
                                  !.times = 1]
    /\ UNCHANGED <<query, phase, registries, results, threads>>

\* the filter applied to the list it returned
FilterAgain ==
    /\ phase = "routine"
    /\ applied.routine = "_filter_redundant_ambiguity"
    /\ applied.times = 1
    /\ applied' = [applied EXCEPT !.again = _filter_redundant_ambiguity(applied.value),
                                  !.times = 2]
    /\ UNCHANGED <<query, phase, registries, results, threads>>

\* select_context = self._build_select_context(select, table_context, column_context)
BuildContext ==
    /\ phase = "routine"
    /\ applied.routine = "_resolve_column_sources"
    /\ applied.times = 0
    /\ applied' = [applied EXCEPT
                      !.value = _build_select_context(applied.args.self, applied.args.select,
                                                      applied.args.table_context,
                                                      applied.args.column_context),
                      !.times = 1]
    /\ UNCHANGED <<query, phase, registries, results, threads>>

\* self._resolve_column_sources(qualifier, select_context, column_name)
ResolveColumn ==
    /\ phase = "routine"
    /\ applied.routine = "_resolve_column_sources"
    /\ applied.times = 1
    /\ applied' = [applied EXCEPT
                      !.again = _resolve_column_sources(applied.args.self,
                                                        applied.args.qualifier,
                                                        applied.value,
                                                        applied.args.column_name),
                      !.times = 2]
    /\ UNCHANGED <<query, phase, registries, results, threads>>

\* normalized_entries = self._lineage_leaf_entries(lineage_entries)
FlattenLineage ==
    /\ phase = "routine"
    /\ applied.routine = "_lineage_leaf_entries"
    /\ applied.times = 0
    /\ applied' = [applied EXCEPT !.value = _lineage_leaf_entries(applied.args.entries),
                                  !.times = 1]
    /\ UNCHANGED <<query, phase, registries, results, threads>>

\* the Columns _extract_source_columns appends for the flattened entries
AppendLeaves ==
    /\ phase = "routine"
    /\ applied.routine = "_lineage_leaf_entries"
    /\ applied.times = 1
    /\ applied' = [applied EXCEPT !.again = LeafColumns(applied.args.entries),
                                  !.times = 2]
    /\ UNCHANGED <<query, phase, registries, results, threads>>

\* self._bind_alias(alias_map, key, value, column_lineage), for the next binding
BindAlias ==
    /\ phase = "routine"
    /\ applied.routine = "_bind_alias"
    /\ applied.times < Len(applied.args.bindings)
    /\ LET binding == applied.args.bindings[applied.times + 1]
           bound == IF applied.times = 0 THEN Unbound ELSE applied.value
       IN  applied' = [applied EXCEPT
                          !.value = _bind_alias(bound, binding.key, binding.value,
                                                binding.column_lineage),
                          !.times = @ + 1]
    /\ UNCHANGED <<query, phase, registries, results, threads>>

\* self._resolve_column_sources(qualifier, None, "a") once the bindings are made
ResolveBound ==
    /\ phase = "routine"
    /\ applied.routine = "_bind_alias"
    /\ applied.times = Len(applied.args.bindings)
    /\ applied' = [applied EXCEPT
                      !.times = @ + 1,
                      !.again = _resolve_column_sources(
                                    [alias_to_table |-> applied.value.alias_map,
                                     assigned |-> TRUE,
                                     alias_column_lineage |-> applied.value.lineage,
                                     source_tables |-> <<>>],
                                    applied.args.qualifier, None, "a")]
    /\ UNCHANGED <<query, phase, registries, results, threads>>

RoutineNext ==
    \/ FilterColumns
    \/ FilterAgain
    \/ BuildContext
    \/ ResolveColumn
    \/ FlattenLineage
    \/ AppendLeaves
    \/ BindAlias
    \/ ResolveBound

RoutineSpec == RoutineInit /\ [][RoutineNext]_vars

(***************************************************************************)
(* Properties.                                                             *)
(***************************************************************************)
AllWhitespace(text) == \A i \in 1..Len(text) : text[i] \in Whitespace
Potential(columns) == { columns[i].potential_tables : i \in 1..Len(columns) }
Names(columns) == { columns[i].col_name : i \in 1..Len(columns) }
Features(columns) ==
    { <<columns[i].name, columns[i].potential_tables>> : i \in 1..Len(columns) }

\* C1: once parsing has succeeded, neither construction nor a public read
\* raises because a qualifier cannot be resolved; a qualifier that matches no
\* relation and no alias resolves to the one-element list [qualifier], also in
\* the projections of CTE bodies and of aliased subqueries
C1_UnresolvedQualifierNeverRaises ==
    /\ phase # "AttributeError"
    /\ query.tree = QTopQualifier /\ memo["source_columns"] # Unset
         => Potential(memo["source_columns"].value) = {<<"x">>}

\* C2: an empty or all-white-space query is rejected with ValueError before
\* anything is parsed or registered, and no instance comes to exist
C2_BlankQueryRejected ==
    AllWhitespace(query.text)
        => /\ phase \in {"new", "ValueError"}
           /\ registries = <<<<>>, <<>>, <<>>, <<>>, <<>>, <<>>, <<>>>>
           /\ builds = <<>>
           /\ \A t \in Threads : calls[t] = 0

C2_WhitespaceRejected == phase = "ValueError" /\ Len(query.text) = 3

\* C3: under every interleaving of calls by one or several threads each of the
\* four extraction routines runs at most once, and every call of an operation
\* returns the one memoized list
C3_ExtractedOnce ==
    \A c \in Memoized :
        /\ runs[c] <= 1
        /\ returned[c] \subseteq {memo[c].value}
        /\ returned[c] # {} => runs[c] = 1 /\ memo[c] # Unset

\* both threads have called the same operation twice and all four calls returned
C3_FourCallsOneRun ==
    \E c \in Memoized :
        /\ \A t \in Threads : calls[t] = MaxCalls /\ pc[t] = "idle" /\ op[t] = c
        /\ \A o \in Ops \ {c} : returned[o] = {}
        /\ runs[c] = 1 /\ returned[c] # {}

\* C4: no interleaving of concurrent public calls deadlocks; the lock is held
\* only inside a call, and every call that was entered returns with the lock
\* released
C4_EveryCallReturns ==
    /\ [](\A t \in Threads :
            /\ lock.owner = t => pc[t] \in {"locked", "extract", "return"}
            /\ pc[t] \in {"locked", "extract", "return"} => lock.owner = t)
    /\ \A t \in Threads : (pc[t] # "idle") ~> (pc[t] = "idle" /\ lock.owner # t)

\* a thread waits for the lock another thread holds while extracting
C4_WaitsForLock ==
    \E t, u \in Threads :
        t # u /\ pc[t] = "enter" /\ lock.owner = u /\ pc[u] = "extract"

\* C5: the context of each SELECT is built at most once in the life of the
\* instance
C5_ContextBuiltOnce ==
    \A i, j \in 1..Len(builds) : builds[i] = builds[j] => i = j

\* C6: after construction no public read changes the CTE registry, the alias
\* map, the per-alias lineage, the display names or the source-table list
C6_RegistriesImmutable == [][phase = "ready" => UNCHANGED registries]_vars

\* every memoized collection of a statement with an aliased subquery and a
\* join has been extracted, and the lineage and the tables have been read
C6_AllRead ==
    /\ query.tree = QSubqueryJoin
    /\ \A c \in Memoized : memo[c] # Unset
    /\ alias_to_table # <<>>

\* a list without its repetitions and its empty strings, first occurrences kept
RECURSIVE FirstSeen(_)
FirstSeen(list) ==
    IF list = <<>> THEN <<>>
    ELSE LET before == FirstSeen(SubSeq(list, 1, Len(list) - 1))
             last == list[Len(list)]
         IN  IF last = "" \/ last \in Range(before) THEN before
             ELSE Append(before, last)

\* the child nodes in the order of the text: the WITH clause comes first
TextChildren(n) ==
    IF n.kind \in {"Select", "Union"}
    THEN Opt(n.with) \o SelectSeq(Children(n), LAMBDA child : child.kind # "With")
    ELSE Children(n)

\* the nodes of a tree in the order of the text (depth first, a node before
\* what it contains)
RECURSIVE DocumentOrder(_)
DocumentOrder(n) ==
    LET children == TextChildren(n)
    IN  <<n>> \o Concat([i \in 1..Len(children) |-> DocumentOrder(children[i])])

\* the sources registered for the CTEs, for the given table references and
\* for the aliased subqueries, in that order
SourcesInOrder(tables) ==
    LET subqueries == SelectSeq(find_all(query.tree, "Subquery"),
                                LAMBDA subquery : subquery.alias # "")
    IN  Concat(DictValues(cte_definitions))
        \o Concat([i \in 1..Len(tables) |->
                      _sources_for_table_reference(tables[i], cte_context)])
        \o Concat([i \in 1..Len(subqueries) |->
                      _tables_for_subexpression(Self, subqueries[i].this, cte_context)])

\* C7 as stated: source_tables() has no duplicate and is in first-seen order
\* over the CTE sources in declaration order, then the table references in
\* document order, then the aliased subqueries
C7_DocumentOrder ==
    phase = "ready" =>
        source_tables =
            FirstSeen(SourcesInOrder(SelectSeq(DocumentOrder(query.tree),
                                               LAMBDA n : n.kind = "Table")))

\* C7: source_tables() has no duplicate and is in first-seen order over the
\* CTE sources in declaration order, then the table references in the order
\* find_all yields them (breadth first: a reference nearer the root comes
\* before a deeper one that is earlier in the text), then the aliased
\* subqueries
C7_BreadthFirstOrder ==
    phase = "ready" =>
        /\ \A i, j \in 1..Len(source_tables) :
                source_tables[i] = source_tables[j] => i = j
        /\ source_tables = FirstSeen(SourcesInOrder(find_all(query.tree, "Table")))
        /\ query.tree = QSubqueryJoin => source_tables = <<"T2", "T1">>
        /\ query.tree = QUnionCte => source_tables = <<"T1", "T2">>

\* the joined table is listed before the table of the subquery in FROM, and
\* the list has been returned
C7_JoinedTableFirst ==
    /\ query.tree = QSubqueryJoin
    /\ returned["source_tables"] = {<<"T2", "T1">>}

\* C8: for a chain of N >= 1 CTEs that pass the columns of one base table
\* through, every column feature_columns() reports has exactly that table as
\* its potential_tables, whatever N is
C8_DepthInvariance ==
    \A n \in 1..MaxDepth : \A columns \in returned["feature_columns"] :
        /\ query.tree = ChainPlain(n)
              => Features(columns) = {<<"a", <<"S.T">>>>, <<"b", <<"S.T">>>>}
        /\ query.tree = ChainAliased(n)
              => Features(columns) = {<<"a", <<"T">>>>, <<"b", <<"T">>>>}

C8_DeepestChainRead ==
    /\ query.tree = ChainPlain(MaxDepth)
    /\ returned["feature_columns"] # {}
    /\ Len(cte_definitions) = MaxDepth

\* C9: a star (bare or qualified) over a subquery that projects a, b and
\* a + b AS s from T gives feature_columns() = a:[T], b:[T], s:[T]
C9_StarOverComputed ==
    query.tree \in {QStarComputed, QAliasStarComputed} =>
        \A columns \in returned["feature_columns"] :
            /\ Len(columns) = 3
            /\ Features(columns) =
                  {<<"a", <<"T">>>>, <<"b", <<"T">>>>, <<"s", <<"T">>>>}

\* the statements whose outer SELECT projects alias.* over a CTE or subquery
StarStatements == {QAliasStarComputed, QStarConstant, QStarRenamed}

\* the output names a CTE or subquery gives with AS
OutputNames(tree) ==
    LET aliases == find_all(tree, "Alias")
    IN  { aliases[i].alias : i \in 1..Len(aliases) }

\* the declared columns of the relations of the outer SELECT, as cached
Declared ==
    LET relations == CtxRelations(DictGet(select_context_cache, query.tree.id, None))
    IN  Concat([i \in 1..Len(relations) |-> DictValues(relations[i].columns)])

Emitted ==
    LET columns == memo["source_columns"].value
    IN  { <<columns[i].col_name, columns[i].potential_tables>> : i \in 1..Len(columns) }

C11_FilterIdempotent ==
    (applied # None /\ applied.routine = "_filter_redundant_ambiguity"
     /\ applied.times = 2) => applied.again = applied.value

\* the filter has run twice on a list that it narrowed or shortened the first
\* time and that still holds an ambiguous entry next to an unambiguous one
C11_FilteredTwice ==
    /\ applied # None
    /\ applied.routine = "_filter_redundant_ambiguity"
    /\ applied.times = 2
    /\ applied.value # applied.args.columns
    /\ \E i, j \in 1..Len(applied.value) :
            /\ Len(applied.value[i].potential_tables) > 1
            /\ Len(applied.value[j].potential_tables) = 1
            /\ Lower(applied.value[i].col_name) = Lower(applied.value[j].col_name)

\* no two entries of a list of columns have the same lowercase name and the
\* same set of tables
DeduplicatedBySet(columns) ==
    \A i, j \in 1..Len(columns) :
        (/\ Lower(columns[i].col_name) = Lower(columns[j].col_name)
         /\ Range(columns[i].potential_tables) = Range(columns[j].potential_tables))
        => i = j

\* C12: the list the ambiguity filter returns, and so the list source_columns()
\* returns, has no two entries with the same lowercase name and the same set
\* of tables, in whatever order each entry lists its tables
C12_DeduplicatedBySortedTables ==
    /\ memo["source_columns"] # Unset => DeduplicatedBySet(memo["source_columns"].value)
    /\ (applied # None /\ applied.routine = "_filter_redundant_ambiguity"
        /\ applied.times > 0) => DeduplicatedBySet(applied.value)

\* for each join entry of the statement, in the order of joins(): the
\* accumulated FROM / earlier-JOIN tables of its join, the tables of the joined
\* relation, and the comparator of the ON clause it was produced from (None for
\* a USING column, whose name is then given)
JoinSides(root) ==
    LET selects == SelectSeq(find_all(root, "Select"), LAMBDA select : select.from # None)
        sides(left, join) ==
            [k \in 1..Len(_flatten_conditions(join.on)) |->
                [left |-> left, comparator |-> _flatten_conditions(join.on)[k],
                 right |-> _relation_sources(Self, join.this).sources, using |-> ""]]
            \o [k \in 1..Len(join.using) |->
                [left |-> left, comparator |-> None,
                 right |-> _relation_sources(Self, join.this).sources,
                 using |-> join.using[k]]]
        of(select) ==
            FoldSeq(LAMBDA acc, join :
                        [left |-> _merge_sources(acc.left,
                                      _relation_sources(Self, join.this).sources),
                         sides |-> acc.sides \o sides(acc.left, join)],
                    [left |-> _relation_sources(Self, select.from.this).sources,
                     sides |-> <<>>],
                    select.joins).sides
    IN  Concat([i \in 1..Len(selects) |-> of(selects[i])])

\* C13: in every join entry produced from an ON comparator, column_left has a
\* table among the accumulated left-side tables of its join whenever one of the
\* two operands has; and the two (Column, complex text) pairs of the entry are
\* the two operands as extracted, each text with the operand it was taken from
C13_LeftOperandFromLeftSide ==
    memo["joins"] # Unset =>
        LET joins == memo["joins"].value
            sides == JoinSides(query.tree)
        IN  /\ Len(joins) = Len(sides)
            /\ \A i \in 1..Len(joins) :
                    sides[i].comparator # None =>
                        /\ (\/ Intersects(sides[i].left, joins[i].column_left.potential_tables)
                            \/ Intersects(sides[i].left, joins[i].column_right.potential_tables))
                           => Intersects(sides[i].left, joins[i].column_left.potential_tables)
                        /\ { <<joins[i].column_left, joins[i].complex_left>>,
                              <<joins[i].column_right, joins[i].complex_right>> }
                           = { <<operand.column, operand.complex>> :
                                 operand \in { _extract_join_operand(Self, side, None) :
                                     side \in { sides[i].comparator.this,
                                                sides[i].comparator.expression } } }

\* C14: L JOIN R USING (col, ...) gives exactly one join entry per listed
\* column, with column_left = (col, the accumulated left-side tables) and
\* column_right = (col, tables(R)), no complex text and no swap; the entries are
\* fixed by the FROM and JOIN relations alone
C14_UsingPairs ==
    memo["joins"] # Unset =>
        LET joins == memo["joins"].value
            sides == JoinSides(query.tree)
        IN  /\ Len(joins) = Len(sides)
            /\ \A i \in 1..Len(joins) :
                    sides[i].comparator = None =>
                        /\ joins[i].column_left = Column(sides[i].using, sides[i].left)
                        /\ joins[i].column_right = Column(sides[i].using, sides[i].right)
                        /\ joins[i].complex_left = ""
                        /\ joins[i].complex_right = ""

\* joins() of T1 c JOIN T2 v USING (id, n) LEFT JOIN T USING (id): id and n
\* between T1 and T2, then id between T1, T2 and T
C14_TwoUsingJoins ==
    /\ query.tree = QUsingTwice
    /\ memo["joins"] # Unset
    /\ [i \in 1..Len(memo["joins"].value) |->
            <<memo["joins"].value[i].join_type,
              memo["joins"].value[i].column_left.col_name,
              memo["joins"].value[i].column_left.potential_tables,
              memo["joins"].value[i].column_right.potential_tables>>]
       = << <<"INNER JOIN", "id", <<"T1">>, <<"T2">>>>,
            <<"INNER JOIN", "n", <<"T1">>, <<"T2">>>>,
            <<"LEFT JOIN", "id", <<"T1", "T2">>, <<"T">>>> >>

RECURSIVE Atoms(_)
\* the atomic predicates of a condition tree, left to right: what is left when
\* AND and OR are taken apart and parentheses around them removed
Atoms(condition) ==
    IF condition.kind \in {"And", "Or"}
    THEN Atoms(condition.this) \o Atoms(condition.expression)
    ELSE IF condition.kind = "Paren" THEN Atoms(condition.this)
    ELSE <<condition>>

\* the six comparison operators and their symbols
Comparisons ==
    [EQ |-> "=", NEQ |-> "!=", LT |-> "<", LTE |-> "<=", GT |-> ">", GTE |-> ">="]

\* [filter_type, operator] of every atomic predicate of every SELECT of the
\* statement, WHERE before HAVING within a SELECT
ExpectedFilters(root) ==
    LET selects == find_all(root, "Select")
        tagged(clause, filter_type) ==
            IF clause = None THEN <<>>
            ELSE [k \in 1..Len(Atoms(clause.this)) |->
                    [filter_type |-> filter_type,
                     operator |->
                        IF Atoms(clause.this)[k].kind \in DOMAIN Comparisons
                        THEN Comparisons[Atoms(clause.this)[k].kind]
                        ELSE KeyUpper(Atoms(clause.this)[k].kind)]]
    IN  Concat([i \in 1..Len(selects) |->
                   tagged(selects[i].where, "WHERE")
                   \o tagged(selects[i].having, "HAVING")])

\* C15: filters() holds one entry per atomic predicate of the WHERE tree and
\* of the HAVING tree of every SELECT, of whatever kind; its filter_type is the
\* clause it came from, its operator the symbol of a comparison operator and
\* otherwise the predicate's own tag in upper case
C15_OneFilterPerPredicate ==
    memo["filters"] # Unset =>
        [i \in 1..Len(memo["filters"].value) |->
            [filter_type |-> memo["filters"].value[i].filter_type,
             operator |-> memo["filters"].value[i].operator]]
        = ExpectedFilters(query.tree)

\* filters() of the statement with IN, BETWEEN, LIKE, IS NULL and EXISTS under
\* AND, OR and parentheses, a HAVING clause and a filtered subquery
C15_FilterVariety ==
    /\ query.tree = QFilterVariety
    /\ memo["filters"] # Unset
    /\ [i \in 1..Len(memo["filters"].value) |->
            <<memo["filters"].value[i].filter_type, memo["filters"].value[i].operator>>]
       = << <<"WHERE", "IN">>, <<"WHERE", "BETWEEN">>, <<"WHERE", "LIKE">>,
            <<"WHERE", "IS">>, <<"WHERE", "EXISTS">>, <<"HAVING", ">">>,
            <<"HAVING", "<=">>, <<"WHERE", "=">>, <<"WHERE", "!=">> >>

RECURSIVE HasPath(_, _)
\* the lineage of column goes down level by level through the columns named,
\* the last of which is a column of a table and has no lineage of its own
HasPath(column, names) ==
    IF names = <<>> THEN column.lineage = <<>> /\ column.potential_tables # <<>>
    ELSE \E k \in 1..Len(column.lineage) :
            /\ column.lineage[k].col_name = Head(names)
            /\ HasPath(column.lineage[k], Tail(names))

\* the filtered aliases of the catalogue that are defined through CTEs or
\* subqueries or by an aggregate, each with the columns it is computed from,
\* level by level down to the base-table column, as the statement defines them
LineageChains ==
    { [tree |-> ChainRenamed(n), alias |-> ColumnNames[n + 1],
       path |-> [k \in 1..n |-> ColumnNames[n + 1 - k]]] : n \in 1..MaxDepth }
    \cup { [tree |-> QSubqueryChain, alias |-> "c", path |-> <<"b", "a">>],
           [tree |-> QHavingAggregate, alias |-> "c", path |-> <<"n">>],
           [tree |-> QStarChain, alias |-> "b", path |-> <<"a">>] }

\* the Columns with the given name in a list of filter entries
ColumnsNamed(filters, name) ==
    { column \in UNION { Range(filters[i].columns) : i \in 1..Len(filters) } :
        column.col_name = name }

\* C16: a Column of a filter entry that references an alias defined through a
\* chain of CTEs or subqueries carries the chain level by level: its lineage
\* holds the column it was computed from, whose lineage holds the one below,
\* down to a base-table column; an aggregate alias in HAVING has the base
\* column inside the aggregate as its lineage
C16_FilterLineageChain ==
    memo["filters"] # Unset =>
        \A chain \in LineageChains :
            chain.tree = query.tree =>
                /\ ColumnsNamed(memo["filters"].value, chain.alias) # {}
                /\ \A column \in ColumnsNamed(memo["filters"].value, chain.alias) :
                        HasPath(column, chain.path)

\* every relation of the statement is a physical table and no projection is
\* renamed or computed: each column reference is a direct reference to a
\* base-table column
DirectOnly(root) ==
    /\ find_all_in(root, {"CTE", "Subquery", "Alias"}) = <<>>
    /\ \A i \in 1..Len(find_all(root, "Select")) :
            \A j \in 1..Len(find_all(root, "Select")[i].expressions) :
                find_all(root, "Select")[i].expressions[j].kind = "Column"

\* C17: a Column has a lineage only when it is a derived or aliased output; a
\* direct reference to a base-table column has none, in source_columns(),
\* select_columns(), joins() and the columns of the entries of filters()
C17_DirectReferenceNoLineage ==
    DirectOnly(query.tree) =>
        /\ \A i \in 1..Len(memo["source_columns"].value) :
                memo["source_columns"].value[i].lineage = <<>>
        /\ \A i \in 1..Len(memo["select_columns"].value) :
                memo["select_columns"].value[i].column.lineage = <<>>
        /\ \A i \in 1..Len(memo["joins"].value) :
                /\ memo["joins"].value[i].column_left.lineage = <<>>
                /\ memo["joins"].value[i].column_right.lineage = <<>>
        /\ \A i \in 1..Len(memo["filters"].value) :
                \A j \in 1..Len(memo["filters"].value[i].columns) :
                    memo["filters"].value[i].columns[j].lineage = <<>>

\* the (lowercase name, tables) of the leaf columns a projection of a SELECT
\* resolves to, with the direct flag the rule gives each: a bare column
\* reference (renamed or not) is direct when it resolves to exactly one leaf
\* column, a dependency of a computed expression never is
ProjectionLeaves(projection, ctx) ==
    LET target == IF projection.kind = "Alias" THEN projection.this ELSE projection
        entries == _column_lineage_for_reference(Self, target.table, ctx, target.name)
        leaves == IF target.kind # "Column"
                  THEN LeafColumns(_projection_lineage(Self, projection, ctx))
                  ELSE IF entries # <<>> THEN LeafColumns(entries)
                  ELSE <<Column(target.name,
                           _resolve_column_sources(Self, target.table, ctx, target.name))>>
        keys == { ColumnKey(leaves[i]) : i \in 1..Len(leaves) }
    IN  { [key |-> key, direct |-> target.kind = "Column" /\ Cardinality(keys) = 1] :
            key \in keys }

\* the projections of the SELECTs that produce the output of the statement,
\* each with the id of its SELECT
OutputProjections(root) ==
    UNION { { [select |-> _final_selects(root)[i].id,
               projection |-> _final_selects(root)[i].expressions[j]] :
                j \in 1..Len(_final_selects(root)[i].expressions) } :
            i \in 1..Len(_final_selects(root)) }

\* C18: select_columns() reports the columns feeding the projections of the
\* output-producing SELECTs and no others; an entry is direct exactly when
\* some bare column reference among those projections resolves to that one
\* leaf column alone; the dependencies of a computed expression and the leaves
\* of a reference that flattens to several are not direct (statements whose
\* output projections have no star)
C18_DirectIffSingleLeaf ==
    (/\ memo["select_columns"] # Unset
     /\ \A p \in OutputProjections(query.tree) :
            /\ p.projection.kind # "Star"
            /\ p.projection.kind = "Column" => p.projection.name # "*")
    => LET found == UNION { ProjectionLeaves(p.projection,
                                ContextOf(select_context_cache, p.select)) :
                            p \in OutputProjections(query.tree) }
       IN  { [key |-> ColumnKey(memo["select_columns"].value[i].column),
              direct |-> memo["select_columns"].value[i].direct] :
                i \in 1..Len(memo["select_columns"].value) }
           = { [key |-> leaf.key,
                direct |-> \E other \in found : other.key = leaf.key /\ other.direct] :
                leaf \in found }

\* the call _resolve_column_sources(qualifier, select_context, column_name)
\* has returned, on the context built for the SELECT
Resolved == applied # None /\ applied.routine = "_resolve_column_sources"
            /\ applied.times = 2

\* the relations of ctx whose alias is the qualifier, whatever the case
Matching(ctx, qualifier) ==
    { i \in 1..Len(ctx.relations) :
        Lower(ctx.relations[i].alias) = Lower(qualifier) }

\* the tables the instance binds to the qualifier outside the SELECT: the
\* lists under its three forms, and the tables its lineage gives the column
GlobalBindings(self, qualifier, column_key) ==
    LET forms == {qualifier, Lower(qualifier), Upper(qualifier)}
        bound == { alias \in forms : DictGet(self.alias_to_table, alias, <<>>) # <<>> }
    IN  { DictGet(self.alias_to_table, alias, <<>>) : alias \in bound }
        \cup { DictGet(DictGet(self.alias_column_lineage, Lower(alias), <<>>),
                       column_key, None).tables :
                 alias \in { b \in bound :
                               DictHas(DictGet(self.alias_column_lineage, Lower(b), <<>>),
                                       column_key) } }

\* C19: a qualified column takes the tables of the declared entry of the
\* relation of the SELECT that has the qualifier as alias (whatever the
\* case), the whole table list of that relation when it does not declare the
\* column, a binding of the global alias map (as written, lowercase or
\* uppercase) only when no relation matches, and [qualifier] when nothing
\* binds the alias; the global bindings never change the result of a match
C19_QualifiedPrecedence ==
    (Resolved /\ applied.args.qualifier # "")
    => LET ctx == applied.value
           qualifier == applied.args.qualifier
           column_key == Lower(applied.args.column_name)
           matching == Matching(ctx, qualifier)
           relation == ctx.relations[CHOOSE i \in matching : \A j \in matching : i <= j]
           bindings == GlobalBindings(applied.args.self, qualifier, column_key)
       IN  /\ matching # {} =>
                applied.again = IF DictHas(relation.columns, column_key)
                                THEN DictGet(relation.columns, column_key, None).tables
                                ELSE relation.tables
           /\ (matching = {} /\ bindings # {}) => applied.again \in bindings
           /\ (matching = {} /\ bindings = {}) => applied.again = <<qualifier>>

\* the tables of the relations of ctx that declare the column, in order
DeclaredTables(ctx, column_key) ==
    Concat([i \in 1..Len(ctx.relations) |->
               IF DictHas(ctx.relations[i].columns, column_key)
               THEN DictGet(ctx.relations[i].columns, column_key, None).tables
               ELSE <<>>])

\* C20: an unqualified column takes the tables of every relation of the SELECT
\* that declares it (name compared in lowercase), each once and in first-seen
\* order; when no relation declares it, it takes default_tables, which is the
\* tables of all the FROM and JOIN relations, each once and in first-seen order
C20_UnqualifiedUnion ==
    (applied # None /\ applied.routine = "_resolve_column_sources" /\ applied.times >= 1)
    => LET ctx == applied.value
           column_key == Lower(applied.args.column_name)
           declared == DeclaredTables(ctx, column_key)
       IN  /\ ctx.default_tables =
                FirstSeen(Concat([i \in 1..Len(ctx.relations) |-> ctx.relations[i].tables]))
           /\ (Resolved /\ applied.args.qualifier = "") =>
                applied.again = IF declared # <<>> THEN FirstSeen(declared)
                                ELSE ctx.default_tables

\* an unqualified column declared by two relations over different tables has
\* been resolved to both, and the SELECT has two relations over two tables
C20_DeclaredTwice ==
    /\ Resolved
    /\ applied.args.qualifier = ""
    /\ Cardinality({ i \in 1..Len(applied.value.relations) :
                       DictHas(applied.value.relations[i].columns,
                               Lower(applied.args.column_name)) }) = 2
    /\ Len(applied.again) = 2
    /\ Len(applied.value.default_tables) = 2

\* the entries of a lineage structure that have no nested entries, a name
\* and tables, from left to right at every depth
RECURSIVE NamedLeaves(_)
NamedLeaves(entries) ==
    IF entries = <<>> THEN <<>>
    ELSE LET entry == Head(entries)
         IN  (IF entry.lineage # <<>> THEN NamedLeaves(entry.lineage)
              ELSE IF entry.name # "" /\ entry.tables # <<>>
              THEN <<Entry(entry.name, entry.tables, <<>>)>> ELSE <<>>)
             \o NamedLeaves(Tail(entries))

\* some entry of a lineage structure, at any depth, has a name
RECURSIVE HasNamed(_)
HasNamed(entries) ==
    \E i \in 1..Len(entries) : entries[i].name # "" \/ HasNamed(entries[i].lineage)

\* the named entries with tables under which no entry has a name, from left to
\* right at every depth
RECURSIVE TerminalEntries(_)
TerminalEntries(entries) ==
    IF entries = <<>> THEN <<>>
    ELSE LET entry == Head(entries)
         IN  (IF HasNamed(entry.lineage) THEN TerminalEntries(entry.lineage)
              ELSE IF entry.name # "" /\ entry.tables # <<>>
              THEN <<Entry(entry.name, entry.tables, <<>>)>> ELSE <<>>)
             \o TerminalEntries(Tail(entries))

Flattened == applied # None /\ applied.routine = "_lineage_leaf_entries"
             /\ applied.times >= 1

Filtered == applied # None /\ applied.routine = "_filter_redundant_ambiguity"
            /\ applied.times >= 1

\* the tables known to be unambiguous for a name in a list of columns: those
\* that are the only table of some column of that name, case ignored
KnownUnambiguous(columns, name) ==
    { columns[i].potential_tables[1] :
        i \in { j \in 1..Len(columns) : /\ Lower(columns[j].col_name) = Lower(name)
                                        /\ Len(columns[j].potential_tables) = 1 } }

\* a column as the filter tells columns apart: lowercase name and tables
NameAndTables(column) ==
    [name |-> Lower(column.col_name), tables |-> column.potential_tables]

\* C22: the ambiguity filter returns, as (lowercase name, tables) pairs, every
\* column with at most one table and every ambiguous column none of whose
\* tables is known-unambiguous for its name, unchanged, and nothing else: an
\* ambiguous column that shares a table with the known-unambiguous ones is
\* narrowed to tables an unambiguous column already states and is gone; so no
\* ambiguous column of the output lists a known-unambiguous table of its name
C22_AmbiguityFilter ==
    Filtered
    => LET columns == applied.args.columns
           known(column) == KnownUnambiguous(columns, column.col_name)
           kept == { i \in 1..Len(columns) :
                       \/ Len(columns[i].potential_tables) <= 1
                       \/ Range(columns[i].potential_tables) \cap known(columns[i]) = {} }
       IN  /\ { NameAndTables(applied.value[i]) : i \in 1..Len(applied.value) }
                = { NameAndTables(columns[i]) : i \in kept }
           /\ \A i \in 1..Len(applied.value) :
                Len(applied.value[i].potential_tables) > 1
                => Range(applied.value[i].potential_tables)
                       \cap known(applied.value[i]) = {}

\* the filter has run on a list with an ambiguous column that shares one table
\* with the known-unambiguous ones and one that shares none and is returned
C22_NarrowedDroppedKept ==
    /\ Filtered
    /\ LET columns == applied.args.columns
           shared(i) == Range(columns[i].potential_tables)
                            \cap KnownUnambiguous(columns, columns[i].col_name)
           ambiguous == { i \in 1..Len(columns) : Len(columns[i].potential_tables) > 1 }
       IN  /\ \E i \in ambiguous : Cardinality(shared(i)) = 1
           /\ \E i \in ambiguous :
                /\ shared(i) = {}
                /\ \E j \in 1..Len(applied.value) : applied.value[j] = columns[i]

\* for each join of the statement, SELECT by SELECT and from left to right:
\* the tables of the FROM relation and of the relations joined before it, each
\* once in first-seen order, the tables of the relation it joins, the number of
\* entries it gives and the columns it names in USING
JoinsInOrder(root) ==
    LET selects == SelectSeq(find_all(root, "Select"), LAMBDA select : select.from # None)
        tables(relation) == _relation_sources(Self, relation).sources
        of(select) ==
            [k \in 1..Len(select.joins) |->
                [join_type |-> _format_join_type(select.joins[k]),
                 before |-> FirstSeen(tables(select.from.this)
                                \o Concat([j \in 1..(k - 1) |-> tables(select.joins[j].this)])),
                 right |-> tables(select.joins[k].this),
                 on |-> Len(_flatten_conditions(select.joins[k].on)),
                 using |-> select.joins[k].using]]
    IN  Concat([i \in 1..Len(selects) |-> of(selects[i])])

\* the position in joins() of the first entry of the k-th join
RECURSIVE FirstEntry(_, _)
FirstEntry(ordered, k) ==
    IF k = 1 THEN 1
    ELSE FirstEntry(ordered, k - 1) + ordered[k - 1].on + Len(ordered[k - 1].using)

\* C23: the entries of joins() come join by join from left to right, each with
\* its join's type; the left side of the entries of the k-th join is the tables
\* of FROM and of joins 1..k-1, each once in first-seen order, without those
\* the k-th join brings, which are on the left only from the next join on
C23_LeftSideAccumulates ==
    memo["joins"] # Unset =>
        LET joins == memo["joins"].value
            ordered == JoinsInOrder(query.tree)
        IN  /\ Len(joins) = FirstEntry(ordered, Len(ordered) + 1) - 1
            /\ \A k \in 1..Len(ordered) :
                 LET first == FirstEntry(ordered, k) IN
                 /\ \A e \in first..(first + ordered[k].on + Len(ordered[k].using) - 1) :
                        joins[e].join_type = ordered[k].join_type
                 /\ \A u \in 1..Len(ordered[k].using) :
                        LET entry == joins[first + ordered[k].on + u - 1] IN
                        /\ entry.column_left =
                             Column(ordered[k].using[u], ordered[k].before)
                        /\ entry.column_right =
                             Column(ordered[k].using[u], ordered[k].right)

\* joins() of the chain of three joins: the last join has T1, T2 and T on its
\* left, the first only T1
C23_ThreeJoins ==
    /\ query.tree = QJoinChain
    /\ memo["joins"] # Unset
    /\ Len(memo["joins"].value) = 4
    /\ memo["joins"].value[1].column_left = Column("id", <<"T1">>)
    /\ memo["joins"].value[2].join_type = "LEFT JOIN"
    /\ memo["joins"].value[3].column_left = Column("n", <<"T1", "T2", "T">>)
    /\ memo["joins"].value[4].column_right = Column("id", <<"T2">>)

\* the (Column, complex text) pairs an operand of an ON comparator may be
\* reported as: a bare column resolved, without text; otherwise its text with
\* a column reference of its subtree resolved, or with placeholder when the
\* subtree has none
OperandReports(side, placeholder) ==
    LET resolved(column) ==
            Column(column.name, _resolve_column_sources(Self, column.table, None, column.name))
        nested == find_all(side, "Column")
    IN  IF side.kind = "Column" THEN { <<resolved(side), "">> }
        ELSE IF nested = <<>> THEN { <<placeholder, Sql(side)>> }
        ELSE { <<resolved(nested[i]), Sql(side)>> : i \in 1..Len(nested) }

\* every entry of joins() made from an ON comparator reports its two operands,
\* in either order, where placeholder(side) stands for an operand without a
\* column reference
OperandsReported(placeholder(_)) ==
    memo["joins"] # Unset =>
        LET joins == memo["joins"].value
            sides == JoinSides(query.tree)
            reported(i) == { <<joins[i].column_left, joins[i].complex_left>>,
                             <<joins[i].column_right, joins[i].complex_right>> }
            these(i) == OperandReports(sides[i].comparator.this,
                                       placeholder(sides[i].comparator.this))
            those(i) == OperandReports(sides[i].comparator.expression,
                                       placeholder(sides[i].comparator.expression))
        IN  /\ Len(joins) = Len(sides)
            /\ \A i \in 1..Len(joins) :
                    sides[i].comparator # None =>
                        \E this \in these(i), that \in those(i) : reported(i) = {this, that}

EmptyPlaceholder(side) == Column("", <<>>)
TextPlaceholder(side) == Column(Sql(side), <<>>)

\* C24: an ON operand that is not a bare column is reported with its text as
\* complex_left / complex_right and a column reference of its subtree as its
\* Column; without any column reference in the subtree its Column is a
\* placeholder with an empty name and no tables; the entry is emitted
C24_EmptyNamePlaceholder == OperandsReported(EmptyPlaceholder)

\* C24 as amended: the placeholder of an operand without a column reference is
\* a Column named by the operand's text, with no tables
C24_TextNamedPlaceholder == OperandsReported(TextPlaceholder)

\* joins() of T1 JOIN T2 ON UPPER(T2.n) = T1.n AND b = 1: one entry with the
\* text UPPER(T2.n) and the column n of T2, one with the literal 1
C24_ComplexAndLiteral ==
    /\ query.tree = QJoinComplex
    /\ memo["joins"] # Unset
    /\ \E i \in 1..Len(memo["joins"].value) :
            {memo["joins"].value[i].complex_left, memo["joins"].value[i].complex_right}
                = {"UPPER(T2.n)", ""}
            /\ Column("n", <<"T2">>) \in {memo["joins"].value[i].column_left,
                                         memo["joins"].value[i].column_right}
    /\ \E i \in 1..Len(memo["joins"].value) :
            Column("1", <<>>) \in {memo["joins"].value[i].column_left,
                                   memo["joins"].value[i].column_right}

\* for every entry joins() should hold, in order: the type of its join and the
\* atomic predicate of the ON tree it stands for (None for a USING column)
EntriesByAtom(root) ==
    LET selects == SelectSeq(find_all(root, "Select"), LAMBDA select : select.from # None)
        atoms(join) == IF join.on = None THEN <<>> ELSE Atoms(join.on)
        of(join) ==
            [k \in 1..Len(atoms(join)) |->
                [join_type |-> _format_join_type(join), atom |-> atoms(join)[k]]]
            \o [k \in 1..Len(join.using) |->
                [join_type |-> _format_join_type(join), atom |-> None]]
    IN  Concat([i \in 1..Len(selects) |->
                   Concat([j \in 1..Len(selects[i].joins) |-> of(selects[i].joins[j])])])

\* C25: joins() holds, in order, one entry for each atomic predicate of each ON
\* tree, taken from left to right through AND, OR and parentheses alike; no
\* such predicate is an AND, an OR or a parenthesis; the entry carries the type
\* of its join and reports the two operands of its predicate
C25_OneEntryPerAtom ==
    memo["joins"] # Unset =>
        LET joins == memo["joins"].value
            expected == EntriesByAtom(query.tree)
        IN  /\ Len(joins) = Len(expected)
            /\ \A i \in 1..Len(joins) :
                 /\ joins[i].join_type = expected[i].join_type
                 /\ expected[i].atom # None =>
                      /\ expected[i].atom.kind \notin {"And", "Or", "Paren"}
                      /\ \E this \in OperandReports(expected[i].atom.this,
                                        TextPlaceholder(expected[i].atom.this)),
                            that \in OperandReports(expected[i].atom.expression,
                                        TextPlaceholder(expected[i].atom.expression)) :
                            { <<joins[i].column_left, joins[i].complex_left>>,
                              <<joins[i].column_right, joins[i].complex_right>> }
                            = {this, that}

\* joins() of the LEFT JOIN on p.id = s.id OR (p.n >= s.n AND (p.x <> s.x)):
\* three entries, on id, n and x in that order
C25_OrAndParentheses ==
    /\ query.tree = QJoinOr
    /\ memo["joins"] # Unset
    /\ [i \in 1..Len(memo["joins"].value) |->
            <<memo["joins"].value[i].join_type,
              memo["joins"].value[i].column_left, memo["joins"].value[i].column_right>>]
       = << <<"LEFT JOIN", Column("id", <<"S.T">>), Column("id", <<"T2">>)>>,
            <<"LEFT JOIN", Column("n", <<"S.T">>), Column("n", <<"T2">>)>>,
            <<"LEFT JOIN", Column("x", <<"S.T">>), Column("x", <<"T2">>)>> >>

\* for every entry joins() holds for an ON predicate, in order: the SELECT that
\* owns the join and the predicate
OwnedPredicates(root) ==
    LET selects == SelectSeq(find_all(root, "Select"), LAMBDA select : select.from # None)
        of(select, join) ==
            [k \in 1..Len(_flatten_conditions(join.on)) |->
                [select |-> select, atom |-> _flatten_conditions(join.on)[k]]]
            \o [k \in 1..Len(join.using) |-> [select |-> select, atom |-> None]]
    IN  Concat([i \in 1..Len(selects) |->
                   Concat([j \in 1..Len(selects[i].joins) |->
                              of(selects[i], selects[i].joins[j])])])

\* C26: every bare-column operand of an ON predicate is reported with the
\* tables the column resolver gives it in the Select Context of the SELECT that
\* owns the join: the tables of the relation of that SELECT with the operand's
\* qualifier as alias, and for an unqualified operand tables of relations of
\* that SELECT only
C26_OperandInOwnContext ==
    memo["joins"] # Unset =>
        LET joins == memo["joins"].value
            owned == OwnedPredicates(query.tree)
            ctx(select) == _build_select_context(Self, select, cte_context,
                                                 cte_column_lineage)
            bare(atom) == { side \in {atom.this, atom.expression} : side.kind = "Column" }
        IN  \A i \in 1..Len(joins) :
                owned[i].atom # None =>
                    \A side \in bare(owned[i].atom) :
                        /\ Column(side.name,
                                  _resolve_column_sources(Self, side.table,
                                        ctx(owned[i].select), side.name))
                           \in {joins[i].column_left, joins[i].column_right}
                        /\ side.table = "" =>
                             \E column \in {joins[i].column_left, joins[i].column_right} :
                                /\ column.col_name = side.name
                                /\ Range(column.potential_tables)
                                     \subseteq Range(ctx(owned[i].select).default_tables)

\* the CTEs of the WITH clause of the statement whose body is one SELECT
\* without a WITH clause of its own, with their position in the clause
PlainCtes(root) ==
    IF root = None \/ root.with = None THEN {}
    ELSE { k \in 1..Len(root.with.expressions) :
             /\ root.with.expressions[k].this.kind = "Select"
             /\ root.with.expressions[k].this.with = None }

\* what a table reference in the body of the k-th CTE stands for when only the
\* CTEs declared before it are visible: the tables of the latest earlier
\* sibling of that name, else the table of that name
VisibleSources(root, k, table) ==
    LET ctes == root.with.expressions
        earlier == { j \in 1..(k - 1) : Lower(ctes[j].alias) = Lower(table.name) }
        latest == CHOOSE j \in earlier : \A i \in earlier : i <= j
    IN  IF earlier # {} THEN DictGet(cte_definitions, ctes[latest].alias, <<>>)
        ELSE <<_normalize_table_name(table)>>

\* C27: a table reference in the body of the k-th CTE stands for the base
\* tables of an earlier sibling of that name and otherwise for the table of
\* that name, never for the CTE itself or a later sibling: in the tables
\* registered for the CTE and in the Select Context of its body
C27_SequentialVisibility ==
    phase = "ready" =>
        \A k \in PlainCtes(query.tree) :
            LET cte == query.tree.with.expressions[k]
                nodes == RelationNodes(cte.this)
                named == find_all(cte.this, "Table")
                ctx == ContextOf(select_context_cache, cte.this.id)
            IN  /\ DictGet(cte_definitions, cte.alias, <<>>)
                     = FirstSeen(Concat([i \in 1..Len(named) |->
                                    VisibleSources(query.tree, k, named[i])]))
                /\ ctx # None =>
                     \A i \in 1..Len(nodes) :
                        nodes[i].kind = "Table" =>
                            ctx.relations[i].tables = VisibleSources(query.tree, k, nodes[i])

\* the aliases declared by WITH clauses inside the bodies of the CTEs of the
\* statement
NestedAliases(root) ==
    IF root = None \/ root.with = None THEN {}
    ELSE UNION { { found.alias : found \in Range(find_all(root.with.expressions[k].this, "CTE")) } :
                 k \in 1..Len(root.with.expressions) }

\* C28: the body of a CTE that declares its own WITH clause is resolved with
\* the nested aliases visible: the tables recorded for each output column of
\* the CTE are among the CTE's source tables, and a nested alias is never a
\* table name in source_tables() or in the potential_tables of a column
C28_NestedWithVisible ==
    phase = "ready" =>
        LET nested == NestedAliases(query.tree)
            columns == IF memo["source_columns"] = Unset THEN <<>>
                       ELSE memo["source_columns"].value
        IN  /\ \A i \in 1..Len(cte_definitions) :
                 \A j \in 1..Len(DictGet(cte_column_lineage,
                                         Lower(cte_definitions[i].k), <<>>)) :
                    Range(DictGet(cte_column_lineage,
                                  Lower(cte_definitions[i].k), <<>>)[j].v.tables)
                        \subseteq Range(cte_definitions[i].v)
            /\ Range(source_tables) \cap nested = {}
            /\ \A i \in 1..Len(columns) : Range(columns[i].potential_tables) \cap nested = {}

\* C29: after bindings of aliases one after the other, an alias that is, case
\* ignored, the alias of the last binding resolves to the table list of the
\* last binding, and the column lineage held for it is that of the last
\* binding: none, when the last binding carries none
C29_LastBindingWins ==
    (/\ applied # None
     /\ applied.routine = "_bind_alias"
     /\ applied.times >= Len(applied.args.bindings)
     /\ Lower(applied.args.qualifier)
          = Lower(applied.args.bindings[Len(applied.args.bindings)].key))
    => LET last == applied.args.bindings[Len(applied.args.bindings)]
           held == DictGet(applied.value.lineage, Lower(applied.args.qualifier), <<>>)
       IN  /\ \A form \in {applied.args.qualifier, Lower(applied.args.qualifier),
                           Upper(applied.args.qualifier)} :
                DictGet(applied.value.alias_map, form, <<>>) = last.value
           /\ [i \in 1..Len(held) |-> [k |-> held[i].k, tables |-> held[i].v.tables]]
                = [i \in 1..Len(last.column_lineage) |->
                      [k |-> last.column_lineage[i].k,
                       tables |-> last.column_lineage[i].v.tables]]
           /\ applied.times > Len(applied.args.bindings)
                => applied.again = last.value

\* the SELECTs of the statement whose FROM and JOIN targets are all tables
\* that no WITH clause of the statement declares
OverPhysicalTables(root) ==
    LET declared == { Lower(found.alias) : found \in Range(find_all(root, "CTE")) }
    IN  { found.id : found \in
            { select \in Range(find_all(root, "Select")) :
                /\ select.from # None
                /\ \A relation \in Range(RelationNodes(select)) :
                      /\ relation.kind = "Table"
                      /\ Lower(relation.name) \notin declared } }

\* the names, in lower case, of the column references that occur in the
\* SELECTs of the statement over physical tables
ReferencedNames(root) ==
    { Lower(found.node.name) :
        found \in { e \in Range(find_all_in(root, {"Column"})) :
                      /\ e.sel \in OverPhysicalTables(root)
                      /\ e.node.name \notin {"", "*"} } }

\* C30: every column reference with a name other than * that occurs in a
\* SELECT whose FROM and JOIN sources are all physical tables has an entry of
\* its own name in source_columns()
C30_NoReferenceLost ==
    (phase = "ready" /\ query.tree # None /\ memo["source_columns"] # Unset)
    => ReferencedNames(query.tree)
         \subseteq { Lower(memo["source_columns"].value[i].col_name) :
                        i \in 1..Len(memo["source_columns"].value) }

====
